---- MODULE Spec2Model ----
(***************************************************************************)
(* A state-machine model of the proctoring core (ProctoringSystem): the    *)
(* presence monitor, the calibration estimator, the attention state        *)
(* machine and the session log / event bus.                                *)
(*                                                                         *)
(* Numbers that are IEEE 754 doubles in the source (landmark coordinates,  *)
(* baselines, smoothed deviations, thresholds, distances) are doubles in   *)
(* the model: a record of sign, binary exponent and 53-bit mantissa, with  *)
(* the arithmetic of the source rounded to nearest, ties to even.  Times   *)
(* are integer milliseconds.                                               *)
(***************************************************************************)
EXTENDS Integers, Sequences, FiniteSets, TLC

\* ------------------------------------------------------------ arithmetic
\* A double is +-(hi * 2^28 + lo) * 2^exp with 2^52 <= hi * 2^28 + lo < 2^53,
\* or Zero.  The mantissa is held in two halves, and products in 14-bit
\* limbs, so that no intermediate value leaves 32 bits.
P14 == 2^14

P28 == 2^28

Zero == [neg |-> FALSE, exp |-> 0, hi |-> 0, lo |-> 0]

IsZero(x) == x.hi = 0 /\ x.lo = 0

\* The number of bits of 0 <= n < 2^(2 k), for k a power of 2: by halving k.
RECURSIVE BitLen(_, _)
BitLen(n, k) ==
    IF k = 0 THEN n
    ELSE IF n >= 2^k THEN k + BitLen(n \div 2^k, k \div 2)
    ELSE BitLen(n, k \div 2)

\* q with its lowest bit set when bits were lost below it (a sticky bit).
Sticky(q, lost) == IF lost /\ q % 2 = 0 THEN q + 1 ELSE q

\* (hi, lo) shifted right by d bits, sticky.
ShiftRightSticky(hi, lo, d) ==
    IF d = 0 THEN [hi |-> hi, lo |-> lo]
    ELSE IF d >= 57 THEN [hi |-> 0, lo |-> IF hi # 0 \/ lo # 0 THEN 1 ELSE 0]
    ELSE IF d >= 28
         THEN [hi |-> 0,
               lo |-> Sticky(hi \div 2^(d - 28), hi % 2^(d - 28) # 0 \/ lo # 0)]
         ELSE [hi |-> hi \div 2^d,
               lo |-> Sticky((hi % 2^d) * 2^(28 - d) + lo \div 2^d, lo % 2^d # 0)]

ShiftLeft(hi, lo, n) ==
    IF n = 0 THEN [hi |-> hi, lo |-> lo]
    ELSE IF n >= 28 THEN [hi |-> lo * 2^(n - 28), lo |-> 0]
    ELSE [hi |-> hi * 2^n + lo \div 2^(28 - n), lo |-> (lo % 2^(28 - n)) * 2^n]

Pack(neg, exp, m) == [neg |-> neg, exp |-> exp, hi |-> m.hi, lo |-> m.lo]

\* The mantissa (hi, lo) after rounding, where adding 1 may have carried.
Carry(neg, exp, hi, lo) ==
    IF lo < P28 THEN [neg |-> neg, exp |-> exp, hi |-> hi, lo |-> lo]
    ELSE IF hi + 1 = 2^25 THEN [neg |-> neg, exp |-> exp + 1, hi |-> 2^24, lo |-> 0]
    ELSE [neg |-> neg, exp |-> exp, hi |-> hi + 1, lo |-> 0]

\* The quotient (qhi, qlo) of a mantissa by k = 2^s rounded to nearest, ties
\* to even, by the remainder r.
RoundNearest(neg, exp, qhi, qlo, r, k) ==
    Carry(neg, exp, qhi, IF 2 * r > k \/ (2 * r = k /\ qlo % 2 = 1) THEN qlo + 1 ELSE qlo)

\* A mantissa of len bits brought to 53 bits.
Normalize(neg, exp, hi, lo, len) ==
    IF len <= 53 THEN Pack(neg, exp - (53 - len), ShiftLeft(hi, lo, 53 - len))
    ELSE RoundNearest(neg, exp + (len - 53), hi \div 2^(len - 53),
                      (hi % 2^(len - 53)) * 2^(28 - (len - 53)) + lo \div 2^(len - 53),
                      lo % 2^(len - 53), 2^(len - 53))

\* The double nearest to +-(hi * 2^28 + lo) * 2^exp, ties to even; the
\* lowest bit of lo may be a sticky bit when more than 55 bits are given.
RoundPack(neg, exp, hi, lo) ==
    IF hi = 0 /\ lo = 0 THEN Zero
    ELSE Normalize(neg, exp, hi, lo, IF hi > 0 THEN 28 + BitLen(hi, 16) ELSE BitLen(lo, 16))

\* The double +-n for 0 < n < 2^31: no rounding.
FromNat(neg, n) == Pack(neg, BitLen(n, 16) - 53, ShiftLeft(0, n, 53 - BitLen(n, 16)))

\* An integer literal of the source.
FromInt(n) == IF n = 0 THEN Zero ELSE FromNat(n < 0, IF n < 0 THEN 0 - n ELSE n)

\* |x| < |y|
MagLess(x, y) ==
    IF IsZero(y) THEN FALSE
    ELSE IF IsZero(x) THEN TRUE
    ELSE \/ x.exp < y.exp
         \/ x.exp = y.exp /\ (x.hi < y.hi \/ (x.hi = y.hi /\ x.lo < y.lo))

Neg(x) == IF IsZero(x) THEN x ELSE [x EXCEPT !.neg = ~@]

\* Math.abs
Abs(x) == [x EXCEPT !.neg = FALSE]

\* The sum or difference of the aligned mantissas (xhi, xlo) and sh.
AddAligned(neg, same, exp, xhi, xlo, sh) ==
    RoundPack(neg, exp,
              IF same THEN xhi + sh.hi + (xlo + sh.lo) \div P28
              ELSE xhi - sh.hi - (IF xlo < sh.lo THEN 1 ELSE 0),
              IF same THEN (xlo + sh.lo) % P28 ELSE (xlo - sh.lo) % P28)

\* big + small for |big| >= |small| > 0: with three guard bits, the smaller
\* shifted to the exponent of the larger.
AddOrdered(big, small) ==
    AddAligned(big.neg, big.neg = small.neg, big.exp - 3,
               big.hi * 8 + big.lo \div 2^25, (big.lo % 2^25) * 8,
               ShiftRightSticky(small.hi * 8 + small.lo \div 2^25,
                                (small.lo % 2^25) * 8, big.exp - small.exp))

\* x + y
Add(x, y) ==
    IF IsZero(x) THEN y
    ELSE IF IsZero(y) THEN x
    ELSE AddOrdered(IF MagLess(x, y) THEN y ELSE x, IF MagLess(x, y) THEN x ELSE y)

\* x - y
Sub(x, y) == Add(x, Neg(y))

\* The 14-bit limbs, lowest first, of the number whose columns (sums of limb
\* products, lowest first) are cols.
RECURSIVE Limbs(_, _, _)
Limbs(cols, carry, limbs) ==
    IF Len(cols) = 0 THEN Append(limbs, carry)
    ELSE Limbs(Tail(cols), (Head(cols) + carry) \div P14,
               Append(limbs, (Head(cols) + carry) % P14))

\* The product whose limbs are c, rounded: its top 56 bits, sticky.
MulPack(neg, exp, c) ==
    RoundPack(neg, exp, c[8] * 2^20 + c[7] * 2^6 + c[6] \div 2^8,
              Sticky((c[6] % 2^8) * 2^20 + c[5] * 2^6 + c[4] \div 2^8,
                     c[4] % 2^8 # 0 \/ c[3] # 0 \/ c[2] # 0 \/ c[1] # 0))

MulLimbs(neg, exp, x0, x1, x2, x3, y0, y1, y2, y3) ==
    MulPack(neg, exp,
            Limbs(<< x0 * y0,
                     x0 * y1 + x1 * y0,
                     x0 * y2 + x1 * y1 + x2 * y0,
                     x0 * y3 + x1 * y2 + x2 * y1 + x3 * y0,
                     x1 * y3 + x2 * y2 + x3 * y1,
                     x2 * y3 + x3 * y2,
                     x3 * y3 >>, 0, << >>))

\* x * y
Mul(x, y) ==
    IF IsZero(x) \/ IsZero(y) THEN Zero
    ELSE MulLimbs(x.neg # y.neg, x.exp + y.exp + 50,
                  x.lo % P14, x.lo \div P14, x.hi % P14, x.hi \div P14,
                  y.lo % P14, y.lo \div P14, y.hi % P14, y.hi \div P14)

\* The digit is raised while the remainder (hi, lo) is not below the divisor
\* (dhi, dlo), at most n times.
RECURSIVE DivCorrect(_, _, _, _, _, _)
DivCorrect(dhi, dlo, digit, hi, lo, n) ==
    IF n = 0 \/ hi < dhi \/ (hi = dhi /\ lo < dlo)
    THEN [digit |-> digit, hi |-> hi, lo |-> lo]
    ELSE DivCorrect(dhi, dlo, digit + 1, hi - dhi - (IF lo < dlo THEN 1 ELSE 0),
                    (lo - dlo) % P28, n - 1)

\* The remainder (ahi, alo) - est * divisor, modulo 2^56, where b are the
\* limbs of est * divisor; then the correction of the digit.
DivRemainder(dhi, dlo, est, ahi, alo, b) ==
    DivCorrect(dhi, dlo, est,
               (ahi - (b[4] * P14 + b[3])
                    - (IF alo < b[2] * P14 + b[1] THEN 1 ELSE 0)) % P28,
               (alo - (b[2] * P14 + b[1])) % P28, 2)

DivEstimate(rhi, rlo, dhi, dlo, est) ==
    DivRemainder(dhi, dlo, est, (rhi % P14) * P14 + rlo \div P14, (rlo % P14) * P14,
                 Limbs(<< est * (dlo % P14), est * (dlo \div P14),
                          est * (dhi % P14), est * (dhi \div P14) >>, 0, << >>))

\* One 14-bit digit of a quotient: the remainder (rhi, rlo), which is below
\* the divisor (dhi, dlo), times 2^14 and divided by the divisor.  The digit
\* is estimated from the leading bits, at most 2 too small, and corrected.
DivDigit(rhi, rlo, dhi, dlo) ==
    DivEstimate(rhi, rlo, dhi, dlo, (rhi * 2^5 + rlo \div 2^23) \div (dhi \div 2^9 + 1))

\* The quotient (qhi, qlo) so far, d the last digit found with its
\* remainder, n the digits still to find; at the end, sticky.
RECURSIVE DivDigits(_, _, _, _, _, _)
DivDigits(dhi, dlo, d, qhi, qlo, n) ==
    IF n = 0
    THEN [hi |-> qhi * P14 + qlo \div P14,
          lo |-> Sticky((qlo % P14) * P14 + d.digit, d.hi # 0 \/ d.lo # 0)]
    ELSE DivDigits(dhi, dlo, DivDigit(d.hi, d.lo, dhi, dlo),
                   qhi * P14 + qlo \div P14, (qlo % P14) * P14 + d.digit, n - 1)

DivPack(neg, exp, q) == RoundPack(neg, exp, q.hi, q.lo)

\* x / y, for y # 0
Div(x, y) ==
    IF IsZero(x) THEN Zero
    ELSE IF y.hi = 2^24 /\ y.lo = 0
    THEN [neg |-> x.neg # y.neg, exp |-> x.exp - y.exp - 52, hi |-> x.hi, lo |-> x.lo]
    ELSE DivPack(x.neg # y.neg, x.exp - y.exp - 56,
                 DivDigits(y.hi, y.lo,
                           DivCorrect(y.hi, y.lo, 0, x.hi, x.lo, 1), 0, 0, 4))

\* x < y
Lt(x, y) ==
    IF x.neg # y.neg THEN x.neg
    ELSE MagLess(IF x.neg THEN y ELSE x, IF x.neg THEN x ELSE y)

\* x > y
Gt(x, y) == Lt(y, x)

\* Math.max
Max(x, y) == IF Lt(x, y) THEN y ELSE x

\* Math.min
Min(x, y) == IF Lt(y, x) THEN y ELSE x

\* The square root of a radicand bit by bit: (mhi, mlo) are its bits still to
\* bring down, (rhi, rlo) is the remainder, (qhi, qlo) the root so far, n the
\* bits still to find; at the end, sticky.
RECURSIVE SqrtBits(_, _, _, _, _, _, _)
RECURSIVE SqrtStep(_, _, _, _, _, _, _, _, _)
SqrtStep(mhi, mlo, rhi, rlo, thi, tlo, qhi, qlo, n) ==
    IF rhi > thi \/ (rhi = thi /\ rlo >= tlo)
    THEN SqrtBits(mhi, mlo, rhi - thi - (IF rlo < tlo THEN 1 ELSE 0), (rlo - tlo) % P28,
                  2 * qhi + (2 * qlo + 1) \div P28, (2 * qlo + 1) % P28, n)
    ELSE SqrtBits(mhi, mlo, rhi, rlo, 2 * qhi + (2 * qlo) \div P28, (2 * qlo) % P28, n)

SqrtBits(mhi, mlo, rhi, rlo, qhi, qlo, n) ==
    IF n = 0 \/ mhi + mlo + rhi + rlo + qhi + qlo < 0
    THEN [hi |-> qhi, lo |-> Sticky(qlo, rhi # 0 \/ rlo # 0)]
    ELSE SqrtStep((mhi % 2^26) * 4 + (mlo * 4) \div P28, (mlo * 4) % P28,
                  rhi * 4 + rlo \div 2^26, (rlo % 2^26) * 4 + mhi \div 2^26,
                  qhi * 4 + qlo \div 2^26, (qlo % 2^26) * 4 + 1,
                  qhi, qlo, n - 1)

\* Math.sqrt, for x >= 0: the root of the mantissa times 4, or times 8 to
\* make the exponent even.
Sqrt(x) ==
    IF IsZero(x) THEN Zero
    ELSE DivPack(FALSE, (x.exp - 2 - (x.exp % 2)) \div 2 - 27,
                 SqrtBits(x.hi * 2^(2 + (x.exp % 2)) + x.lo \div 2^(26 - (x.exp % 2)),
                          (x.lo % 2^(26 - (x.exp % 2))) * 2^(2 + (x.exp % 2)),
                          0, 0, 0, 0, 55))

\* The 24-bit mantissa q as a double.
Single(neg, exp, q) ==
    IF q = 2^24 THEN [neg |-> neg, exp |-> exp + 1, hi |-> 2^24, lo |-> 0]
    ELSE [neg |-> neg, exp |-> exp, hi |-> 2 * q, lo |-> 0]

\* A double stored in a Float32Array and read back: rounded to 24
\* significant bits, ties to even.
ToFloat32(x) ==
    IF IsZero(x) THEN x
    ELSE Single(x.neg, x.exp,
                IF x.hi % 2 = 1 /\ (x.lo > 0 \/ (x.hi \div 2) % 2 = 1)
                THEN x.hi \div 2 + 1 ELSE x.hi \div 2)

RECURSIVE Pow10(_)
Pow10(places) == IF places = 0 THEN 1 ELSE 10 * Pow10(places - 1)

\* The double a decimal literal m / 10^places denotes.
Decimal(m, places) == Div(FromInt(m), FromInt(Pow10(places)))

\* null / undefined for a time.
Null == -1

\* ---------------------------------------------------------------- CONFIG
FACE_RECOGNITION_THRESHOLD == Decimal(50, 2)
INTERVAL_MS == 10000
INITIAL_DELAY_MS == 1000
MAX_FRAMES == 45
CALIBRATION_EMA_ALPHA == Decimal(1, 1)
STABILIZATION_THRESHOLD == 3
STABILIZATION_EMA_ALPHA == Decimal(25, 2)
MIN_DISTRACTION_DURATION == 2000
HISTORY_SIZE == 8
YAW_THRESHOLD_BASE == Decimal(8, 2)
YAW_THRESHOLD_MULTIPLIER == FromInt(2)
YAW_THRESHOLD_OFFSET == Decimal(5, 2)
PITCH_THRESHOLD_BASE == Decimal(12, 2)
PITCH_THRESHOLD_MULTIPLIER == FromInt(2)
PITCH_THRESHOLD_OFFSET == Decimal(6, 2)
MIN_EYE_WIDTH == Decimal(1, 2)
GAZE_THRESHOLD_BASE == Decimal(18, 2)
GAZE_THRESHOLD_MULTIPLIER == Decimal(5, 1)
GAZE_THRESHOLD_OFFSET == Decimal(12, 2)
SAVE_INTERVAL == 4000

\* -------------------------------------------------------------- messages
\* A message is the template literal of the source: its text and, for the two
\* identity messages, the interpolated distance (none otherwise).
Msg(text) == [text |-> text, distance |-> << >>]

MsgDistance(text, d) == [text |-> text, distance |-> << d >>]

\* The characters of the string literals the program uses.
Chars(str) ==
    CASE str = "No enrolled face found. Please enroll first." ->
        <<"N", "o", " ", "e", "n", "r", "o", "l", "l", "e", "d", " ", "f", "a", "c", "e", " ", "f", "o", "u", "n", "d", ".", " ", "P", "l", "e", "a", "s", "e", " ", "e", "n", "r", "o", "l", "l", " ", "f", "i", "r", "s", "t", ".">>
      [] str = "Monitoring session started - Calibrating..." ->
        <<"M", "o", "n", "i", "t", "o", "r", "i", "n", "g", " ", "s", "e", "s", "s", "i", "o", "n", " ", "s", "t", "a", "r", "t", "e", "d", " ", "-", " ", "C", "a", "l", "i", "b", "r", "a", "t", "i", "n", "g", ".", ".", ".">>
      [] str = "Failed to start monitoring" ->
        <<"F", "a", "i", "l", "e", "d", " ", "t", "o", " ", "s", "t", "a", "r", "t", " ", "m", "o", "n", "i", "t", "o", "r", "i", "n", "g">>
      [] str = "Monitoring session stopped" ->
        <<"M", "o", "n", "i", "t", "o", "r", "i", "n", "g", " ", "s", "e", "s", "s", "i", "o", "n", " ", "s", "t", "o", "p", "p", "e", "d">>
      [] str = "Wrong person detected (distance: " ->
        <<"W", "r", "o", "n", "g", " ", "p", "e", "r", "s", "o", "n", " ", "d", "e", "t", "e", "c", "t", "e", "d", " ", "(", "d", "i", "s", "t", "a", "n", "c", "e", ":", " ">>
      [] str = "Authorized person verified (distance: " ->
        <<"A", "u", "t", "h", "o", "r", "i", "z", "e", "d", " ", "p", "e", "r", "s", "o", "n", " ", "v", "e", "r", "i", "f", "i", "e", "d", " ", "(", "d", "i", "s", "t", "a", "n", "c", "e", ":", " ">>
      [] str = "No face detected" ->
        <<"N", "o", " ", "f", "a", "c", "e", " ", "d", "e", "t", "e", "c", "t", "e", "d">>
      [] str = "Multiple faces detected" ->
        <<"M", "u", "l", "t", "i", "p", "l", "e", " ", "f", "a", "c", "e", "s", " ", "d", "e", "t", "e", "c", "t", "e", "d">>
      [] str = "Single face detected - OK" ->
        <<"S", "i", "n", "g", "l", "e", " ", "f", "a", "c", "e", " ", "d", "e", "t", "e", "c", "t", "e", "d", " ", "-", " ", "O", "K">>
      [] str = "Calibration complete - Monitoring attention" ->
        <<"C", "a", "l", "i", "b", "r", "a", "t", "i", "o", "n", " ", "c", "o", "m", "p", "l", "e", "t", "e", " ", "-", " ", "M", "o", "n", "i", "t", "o", "r", "i", "n", "g", " ", "a", "t", "t", "e", "n", "t", "i", "o", "n">>
      [] str = "Sustained distraction detected" ->
        <<"S", "u", "s", "t", "a", "i", "n", "e", "d", " ", "d", "i", "s", "t", "r", "a", "c", "t", "i", "o", "n", " ", "d", "e", "t", "e", "c", "t", "e", "d">>
      [] str = "Focus restored" ->
        <<"F", "o", "c", "u", "s", " ", "r", "e", "s", "t", "o", "r", "e", "d">>
      [] str = "Wrong person detected" ->
        <<"W", "r", "o", "n", "g", " ", "p", "e", "r", "s", "o", "n", " ", "d", "e", "t", "e", "c", "t", "e", "d">>
      [] str = "User looking away" ->
        <<"U", "s", "e", "r", " ", "l", "o", "o", "k", "i", "n", "g", " ", "a", "w", "a", "y">>
      [] str = "Distraction noted" ->
        <<"D", "i", "s", "t", "r", "a", "c", "t", "i", "o", "n", " ", "n", "o", "t", "e", "d">>
      [] str = "distraction" ->
        <<"d", "i", "s", "t", "r", "a", "c", "t", "i", "o", "n">>
      [] str = "looking away" ->
        <<"l", "o", "o", "k", "i", "n", "g", " ", "a", "w", "a", "y">>

\* The number with the limbs c, shifted right by 14 a + b bits.
ShiftLimbs(c, a, b) ==
    c[a + 1] \div 2^b + c[a + 2] * 2^(14 - b) + c[a + 3] * 2^(28 - b)

\* The integer nearest to 1000 x, the larger of two equally near, for
\* 0 <= x < 2^20: 1000 times the mantissa, halved -exp - 1 times, plus 1,
\* halved.
Thousandths(x) ==
    IF IsZero(x) \/ x.exp < 0 - 70 THEN 0
    ELSE (ShiftLimbs(Limbs(<< (x.lo % P14) * 1000, (x.lo \div P14) * 1000,
                              (x.hi % P14) * 1000, (x.hi \div P14) * 1000 >>, 0, << >>)
                         \o << 0, 0, 0 >>,
                     (0 - x.exp - 1) \div 14, (0 - x.exp - 1) % 14) + 1) \div 2

DigitChar(n) ==
    CASE n = 0 -> "0" [] n = 1 -> "1" [] n = 2 -> "2" [] n = 3 -> "3"
      [] n = 4 -> "4" [] n = 5 -> "5" [] n = 6 -> "6" [] n = 7 -> "7"
      [] n = 8 -> "8" [] n = 9 -> "9"

\* The decimal digits of n >= 0.
RECURSIVE Digits(_)
Digits(n) ==
    IF n < 10 THEN << DigitChar(n) >> ELSE Append(Digits(n \div 10), DigitChar(n % 10))

\* n / 1000 with three decimals.
Fixed3(n) ==
    Digits(n \div 1000) \o << ".", DigitChar((n \div 100) % 10),
                              DigitChar((n \div 10) % 10), DigitChar(n % 10) >>

\* Number.prototype.toFixed(3) of a distance: the exact value of the double,
\* rounded to 1/1000.
ToFixed3(d) == Fixed3(Thousandths(d))
\* The string a message evaluates to.
Render(m) ==
    IF m.distance = << >> THEN Chars(m.text)
    ELSE Chars(m.text) \o ToFixed3(m.distance[1]) \o << ")" >>

\* String.prototype.includes
Includes(m, sub) ==
    LET str == Render(m)
        pat == Chars(sub)
    IN  \E i \in 0..(Len(str) - Len(pat)) : SubSeq(str, i + 1, i + Len(pat)) = pat

\* ----------------------------------------------------- session log / events
\* Mutant: a session id supplied by the caller is kept.
AddToSessionLogAsGiven(s, logEntry, t) ==
    LET fields == DOMAIN logEntry \cup {"session_id", "timestamp"}
        stamped == [f \in fields |->
                       IF f = "session_id"
                       THEN IF "session_id" \in DOMAIN logEntry
                            THEN logEntry.session_id
                            ELSE s.sessionStartTime
                       ELSE IF f = "timestamp"
                            THEN IF "timestamp" \in DOMAIN logEntry /\ logEntry.timestamp # 0
                                 THEN logEntry.timestamp
                                 ELSE t
                            ELSE logEntry[f]]
    IN  [s EXCEPT !.sessionLogs = Append(@, stamped)]

\* Mutant: the entry is put at the front of the log.
AddToSessionLogFirst(s, logEntry, t) ==
    [s EXCEPT !.sessionLogs =
                  << [f \in DOMAIN logEntry \cup {"session_id"} |->
                         IF f = "session_id" THEN s.sessionStartTime ELSE logEntry[f]] >>
                  \o @]

\* addToSessionLog: the entry is stamped with the instance's session id, and
\* with the current time when it carries no (truthy) timestamp of its own.
AddToSessionLog(s, logEntry, t) ==
    LET fields == DOMAIN logEntry \cup {"session_id", "timestamp"}
        stamped == [f \in fields |->
                       IF f = "session_id" THEN s.sessionStartTime
                       ELSE IF f = "timestamp"
                            THEN IF "timestamp" \in DOMAIN logEntry /\ logEntry.timestamp # 0
                                 THEN logEntry.timestamp
                                 ELSE t
                            ELSE logEntry[f]]
    IN  [s EXCEPT !.sessionLogs = Append(@, stamped)]

\* Mutant: a request exactly SAVE_INTERVAL after the last one is dropped too.
SaveViolationFrameStrict(s, message, t) ==
    IF t - s.lastViolationFrameSave <= SAVE_INTERVAL
    THEN s
    ELSE IF s.canvas = "null"
    THEN [s EXCEPT !.lastViolationFrameSave = t]
    ELSE [s EXCEPT !.lastViolationFrameSave = t,
                   !.toBlobQueue = Append(@, message)]

\* saveViolationFrame up to the canvas.toBlob request; the blob callback is
\* delivered later (ToBlobCallback).  On an instance whose canvas dispose
\* has released, the request throws after the throttle was updated and the
\* error is caught: no callback is pending.
SaveViolationFrame(s, message, t) ==
    IF t - s.lastViolationFrameSave < SAVE_INTERVAL
    THEN s
    ELSE IF s.canvas = "null"
    THEN [s EXCEPT !.lastViolationFrameSave = t]
    ELSE [s EXCEPT !.lastViolationFrameSave = t,
                   !.toBlobQueue = Append(@, message)]

\* Mutant: only 'distraction' is matched.
IsDistractionMessage(message) == Includes(message, "distraction")

\* Whether logEvent counts the violation as an attention violation.
IsAttentionMessage(message) ==
    Includes(message, "distraction") \/ Includes(message, "looking away")

CountViolation(s, message) ==
    LET a == [s EXCEPT !.totalViolations = @ + 1]
    IN  IF IsAttentionMessage(message)
        THEN [a EXCEPT !.attentionViolations = @ + 1]
        ELSE a

LogEvent(s, message, type, t) ==
    LET event == [timestamp |-> t, message |-> message, type |-> type]
        s1 == [s EXCEPT !.sessionEvents = Append(@, event)]
        s2 == IF type = "violation"
              THEN SaveViolationFrame(CountViolation(s1, message), message, t)
              ELSE s1
    IN  AddToSessionLog(s2, [type |-> "event", timestamp |-> t,
                             event_type |-> type, message |-> message], t)

\* Mutant: onViolationUpdate is called before the counters are incremented.
LogEventCallbacksStale(s, message, type, t) ==
    LET update == [callback |-> "onViolationUpdate",
                   total |-> s.totalViolations,
                   attention |-> s.attentionViolations]
        event == [callback |-> "onLogEvent",
                  timestamp |-> t, message |-> message, type |-> type]
    IN  IF type = "violation" THEN << update, event >> ELSE << event >>

\* The calls logEvent makes to the page's two callbacks, in order:
\* onViolationUpdate with the counters as just incremented when the type is
\* 'violation', then onLogEvent with the event.
LogEventCallbacks(s, message, type, t) ==
    LET counted == CountViolation(s, message)
        update == [callback |-> "onViolationUpdate",
                   total |-> counted.totalViolations,
                   attention |-> counted.attentionViolations]
        event == [callback |-> "onLogEvent",
                  timestamp |-> t, message |-> message, type |-> type]
    IN  IF type = "violation" THEN << update, event >> ELSE << event >>

\* The canvas.toBlob callback of saveViolationFrame for the oldest request.
ToBlobDelivered(s, hasBlob, t) ==
    LET message == Head(s.toBlobQueue)
        s1 == [s EXCEPT !.toBlobQueue = Tail(@)]
    IN  IF ~hasBlob THEN s1
        ELSE AddToSessionLog(
                 [s1 EXCEPT !.violationFrames =
                                Append(@, [message |-> message, timestamp |-> t])],
                 [type |-> "frame_saved", timestamp |-> t,
                  reason |-> message, frame_timestamp |-> t], t)

\* ------------------------------------------------------------- geometry
Point(x, y) == [x |-> x, y |-> y]

CalculateEyeCenter(leftEye, rightEye) ==
    Point(Div(Add(leftEye.x, rightEye.x), FromInt(2)),
          Div(Add(leftEye.y, rightEye.y), FromInt(2)))

CalculateHeadAngles(noseTip, eyeCenter) ==
    [yaw |-> Sub(noseTip.x, eyeCenter.x), pitch |-> Sub(noseTip.y, eyeCenter.y)]

\* null when the eye is narrower than MIN_EYE_WIDTH.
GazeIsNull(iris, eyeInner, eyeOuter) ==
    Lt(Abs(Sub(eyeInner.x, eyeOuter.x)), MIN_EYE_WIDTH)

CalculateGaze(iris, eyeInner, eyeOuter) ==
    Div(Sub(iris.x, eyeOuter.x), Abs(Sub(eyeInner.x, eyeOuter.x)))

\* A landmark set is a function from landmark index to point; an index the
\* mesh did not deliver (the iris points 468 and 473) is outside its domain.
HasLandmark(landmarks, i) == i \in DOMAIN landmarks

\* ----------------------------------------------------------- calibration
\* previous * (1 - alpha) + sample * alpha
Ema(alpha, previous, sample) ==
    Add(Mul(previous, Sub(FromInt(1), alpha)), Mul(sample, alpha))

\* Mutant: the width of the right eye is not checked.
GazeComputableLeftWidth(landmarks) ==
    /\ HasLandmark(landmarks, 468)
    /\ HasLandmark(landmarks, 473)
    /\ ~GazeIsNull(landmarks[468], landmarks[133], landmarks[33])

GazeComputable(landmarks) ==
    /\ HasLandmark(landmarks, 468)
    /\ HasLandmark(landmarks, 473)
    /\ ~GazeIsNull(landmarks[468], landmarks[133], landmarks[33])
    /\ ~GazeIsNull(landmarks[473], landmarks[362], landmarks[263])

AvgGaze(landmarks) ==
    Div(Add(CalculateGaze(landmarks[468], landmarks[133], landmarks[33]),
            CalculateGaze(landmarks[473], landmarks[362], landmarks[263])),
        FromInt(2))

RawHeadAngles(landmarks) ==
    CalculateHeadAngles(landmarks[1], CalculateEyeCenter(landmarks[33], landmarks[263]))

\* The head-pose baselines of calibrateBaseline, from the raw angles.
CalibrateHeadPose(s, raw) ==
    [s EXCEPT !.baselineYaw = Ema(CALIBRATION_EMA_ALPHA, @, raw.yaw),
              !.baselinePitch = Ema(CALIBRATION_EMA_ALPHA, @, raw.pitch)]

\* The gaze baseline of calibrateBaseline, left alone when the gaze signal
\* is undefined for the frame.
CalibrateGaze(s, landmarks) ==
    IF GazeComputable(landmarks)
    THEN [s EXCEPT !.baselineGaze = Ema(CALIBRATION_EMA_ALPHA, @, AvgGaze(landmarks))]
    ELSE s

CalibrateBaseline(s, landmarks) ==
    CalibrateGaze(CalibrateHeadPose(s, RawHeadAngles(landmarks)), landmarks)

\* ------------------------------------------------- smoothing / thresholds
\* Mutant: a full history loses its second-oldest value.
PushHistorySecond(history, value) ==
    LET h == Append(history, value)
    IN  IF Len(h) > HISTORY_SIZE THEN << h[1] >> \o SubSeq(h, 3, Len(h)) ELSE h

\* history.push(value); if (history.length > HISTORY_SIZE) history.shift()
PushHistory(history, value) ==
    LET h == Append(history, value)
    IN  IF Len(h) > HISTORY_SIZE THEN Tail(h) ELSE h

\* EMA_ALPHA * deviation + (1 - EMA_ALPHA) * last
Smooth(history, deviation) ==
    LET last == IF Len(history) > 0 THEN history[Len(history)] ELSE deviation
    IN  Add(Mul(STABILIZATION_EMA_ALPHA, deviation),
            Mul(Sub(FromInt(1), STABILIZATION_EMA_ALPHA), last))

YawThreshold(s) ==
    Max(YAW_THRESHOLD_BASE,
        Add(Mul(s.baselineYaw, YAW_THRESHOLD_MULTIPLIER), YAW_THRESHOLD_OFFSET))

PitchThreshold(s) ==
    Max(PITCH_THRESHOLD_BASE,
        Add(Mul(s.baselinePitch, PITCH_THRESHOLD_MULTIPLIER), PITCH_THRESHOLD_OFFSET))

GazeThreshold(s) ==
    Max(GAZE_THRESHOLD_BASE,
        Add(Mul(s.baselineGaze, GAZE_THRESHOLD_MULTIPLIER), GAZE_THRESHOLD_OFFSET))

\* analyzeAttention: the classification and the instance with both histories
\* pushed.
HeadPoseResult(s, smoothedYaw, smoothedPitch) ==
    [state |-> [s EXCEPT !.yawHistory = PushHistory(@, smoothedYaw),
                         !.pitchHistory = PushHistory(@, smoothedPitch)],
     result |-> IF \/ Gt(smoothedYaw, YawThreshold(s))
                   \/ Gt(smoothedPitch, PitchThreshold(s))
                THEN "distracted" ELSE "focused"]

SmoothedHeadPose(s, raw) ==
    HeadPoseResult(s, Smooth(s.yawHistory, Abs(Sub(raw.yaw, s.baselineYaw))),
                   Smooth(s.pitchHistory, Abs(Sub(raw.pitch, s.baselinePitch))))

AnalyzeAttention(s, landmarks) == SmoothedHeadPose(s, RawHeadAngles(landmarks))

\* analyzeGaze: 'focused' with the history untouched when the gaze signal is
\* undefined for the frame.
GazeResult(s, smoothedGaze) ==
    [state |-> [s EXCEPT !.gazeHistory = PushHistory(@, smoothedGaze)],
     result |-> IF Gt(smoothedGaze, GazeThreshold(s)) THEN "distracted" ELSE "focused"]

AnalyzeGaze(s, landmarks) ==
    IF ~GazeComputable(landmarks)
    THEN [state |-> s, result |-> "focused"]
    ELSE GazeResult(s, Smooth(s.gazeHistory,
                              Abs(Sub(AvgGaze(landmarks), s.baselineGaze))))

\* --------------------------------------------------------------- presence
\* Mutant: only unauthorizedCounter is reset.
ResetUnauthorizedCounter(s) == [s EXCEPT !.unauthorizedCounter = 0]

ResetFaceRecognitionCounters(s) ==
    [s EXCEPT !.unauthorizedCounter = 0, !.authorizedCounter = 0]

\* The previous-count conditions under which a frame's count is announced.
AnnouncesNoFace(lastFaceCount) == lastFaceCount # 0

\* Mutant: a second face is announced only when nobody was there before.
AnnouncesMultipleFromNone(lastFaceCount) == lastFaceCount < 1

AnnouncesMultiple(lastFaceCount) == lastFaceCount <= 1

\* Mutant: a single face is announced only after an empty frame.
AnnouncesSingleFromNone(lastFaceCount) == lastFaceCount = 0

AnnouncesSingle(lastFaceCount) == lastFaceCount # 1

\* Mutant: only an increase of the count is logged.
LogsFaceCountIncrease(lastFaceCount, faceCount) == lastFaceCount < faceCount

LogsFaceCountChange(lastFaceCount, faceCount) == lastFaceCount # faceCount

OnFaceDetectionResults(s, faceCount, t) ==
    IF ~s.isMonitoring THEN s
    ELSE
      LET s1 == IF faceCount = 0
                THEN ResetFaceRecognitionCounters(
                         IF AnnouncesNoFace(s.lastFaceCount)
                         THEN LogEvent(s, Msg("No face detected"), "violation", t)
                         ELSE s)
                ELSE IF faceCount > 1
                THEN ResetFaceRecognitionCounters(
                         IF AnnouncesMultiple(s.lastFaceCount)
                         THEN LogEvent(s, Msg("Multiple faces detected"), "violation", t)
                         ELSE s)
                ELSE IF AnnouncesSingle(s.lastFaceCount)
                     THEN LogEvent(s, Msg("Single face detected - OK"), "info", t)
                     ELSE s
          s2 == IF LogsFaceCountChange(s1.lastFaceCount, faceCount)
                THEN AddToSessionLog(s1, [type |-> "face_count_change", timestamp |-> t,
                                          previous_count |-> s1.lastFaceCount,
                                          current_count |-> faceCount], t)
                ELSE s1
      IN  [s2 EXCEPT !.lastFaceCount = faceCount]

\* ----------------------------------------------------------- recognition
\* Mutant: the gate does not look at the enrolled descriptors.
RecognitionDueUnchecked(s, t) ==
    \/ ~s.faceRecognitionStarted /\ t - s.sessionStartTime >= INITIAL_DELAY_MS
    \/ s.faceRecognitionStarted /\ t - s.lastFaceRecogTime >= INTERVAL_MS

\* Mutant: the periodic run waits for the initial delay only.
RecognitionDueEager(s, t) ==
    /\ ~s.enrolledDescriptors.isNull
    /\ Len(s.enrolledDescriptors.items) > 0
    /\ \/ ~s.faceRecognitionStarted /\ t - s.sessionStartTime >= INITIAL_DELAY_MS
       \/ s.faceRecognitionStarted /\ t - s.lastFaceRecogTime >= INITIAL_DELAY_MS

\* The gate of processVideo: descriptors are enrolled and the initial delay
\* or the interval has elapsed.
RecognitionDue(s, t) ==
    /\ ~s.enrolledDescriptors.isNull
    /\ Len(s.enrolledDescriptors.items) > 0
    /\ \/ ~s.faceRecognitionStarted /\ t - s.sessionStartTime >= INITIAL_DELAY_MS
       \/ s.faceRecognitionStarted /\ t - s.lastFaceRecogTime >= INTERVAL_MS

\* Mutant: only an empty frame makes performFaceRecognition return at once.
SkipsRecognitionNoFace(s) == s.lastFaceCount = 0

\* performFaceRecognition returns at once unless exactly one face is present.
SkipsRecognition(s) == s.lastFaceCount = 0 \/ s.lastFaceCount > 1

\* The gate is passed and performFaceRecognition runs up to its await.
BeginFaceRecognition(s, t) ==
    LET s1 == [s EXCEPT !.lastFaceRecogTime = t, !.faceRecognitionStarted = TRUE]
    IN  IF SkipsRecognition(s1) THEN ResetFaceRecognitionCounters(s1) ELSE s1

\* faceapi.euclideanDistance, on descriptors of equal length: the square root
\* of the sum, from 0, of the squared differences.
\* Math.pow(diff, 2)
Pow2(diff) == Mul(diff, diff)

RECURSIVE SumOfSquares(_, _, _)
SumOfSquares(res, a, b) ==
    IF Len(a) = 0 \/ res.hi < 0 THEN res
    ELSE SumOfSquares(Add(res, Pow2(Sub(Head(a), Head(b)))), Tail(a), Tail(b))

EuclideanDistance(a, b) == Sqrt(SumOfSquares(Zero, a, b))

\* The smallest distance from the descriptor to an enrolled one.
RECURSIVE BestDistance(_, _)
BestDistance(refDescriptors, descriptor) ==
    IF Len(refDescriptors) = 1
    THEN EuclideanDistance(Head(refDescriptors), descriptor)
    ELSE Min(EuclideanDistance(Head(refDescriptors), descriptor),
             BestDistance(Tail(refDescriptors), descriptor))

\* Mutant: Unauthorized is confirmed one cycle early.
UnauthorizedConfirmedEarly(s) ==
    /\ s.unauthorizedCounter >= STABILIZATION_THRESHOLD - 1
    /\ s.lastPersonState # "unauthorized"

UnauthorizedConfirmed(s) ==
    /\ s.unauthorizedCounter >= STABILIZATION_THRESHOLD
    /\ s.lastPersonState # "unauthorized"

AuthorizedConfirmed(s) ==
    /\ s.authorizedCounter >= STABILIZATION_THRESHOLD
    /\ s.lastPersonState # "authorized"

\* A detection is what the await of detectSingleFace yields: no face
\* ("none"), a rejection ("throws") or a face with its descriptor ("face").
Detection(kind, descriptor) == [kind |-> kind, descriptor |-> descriptor]

\* The unauthorized branch of performFaceRecognition; s has the counters
\* of the cycle.
UnauthorizedCycle(s, bestDistance, t) ==
    IF UnauthorizedConfirmed(s)
    THEN AddToSessionLog(
             [LogEvent(s, MsgDistance("Wrong person detected (distance: ", bestDistance),
                       "violation", t)
                  EXCEPT !.lastPersonState = "unauthorized"],
             [type |-> "face_recognition", timestamp |-> t,
              result |-> "unauthorized", distance |-> bestDistance,
              threshold |-> FACE_RECOGNITION_THRESHOLD], t)
    ELSE s

\* The authorized branch of performFaceRecognition; s has the counters of
\* the cycle.
AuthorizedCycle(s, bestDistance, t) ==
    IF AuthorizedConfirmed(s)
    THEN AddToSessionLog(
             [LogEvent(s, MsgDistance("Authorized person verified (distance: ",
                                      bestDistance), "info", t)
                  EXCEPT !.lastPersonState = "authorized"],
             [type |-> "face_recognition", timestamp |-> t,
              result |-> "authorized", distance |-> bestDistance,
              threshold |-> FACE_RECOGNITION_THRESHOLD], t)
    ELSE s

\* performFaceRecognition once the best distance is known.
Recognized(s, bestDistance, t) ==
    IF Gt(bestDistance, FACE_RECOGNITION_THRESHOLD)
    THEN UnauthorizedCycle([s EXCEPT !.unauthorizedCounter = @ + 1,
                                     !.authorizedCounter = 0], bestDistance, t)
    ELSE AuthorizedCycle([s EXCEPT !.authorizedCounter = @ + 1,
                                   !.unauthorizedCounter = 0], bestDistance, t)

\* performFaceRecognition from its await on.
FaceRecognitionResult(s, detection, t) ==
    IF detection.kind # "face" THEN ResetFaceRecognitionCounters(s)
    ELSE Recognized(s, BestDistance(s.enrolledDescriptors.items, detection.descriptor), t)

\* ------------------------------------------------------------------- mesh
\* Mutant: calibration ends one frame early.
InCalibrationShort(calibrationFrames) == calibrationFrames < MAX_FRAMES - 1

\* Mutant: calibration goes on for one frame more.
InCalibrationLong(calibrationFrames) == calibrationFrames <= MAX_FRAMES

\* Whether the mesh frame is still a calibration frame.
InCalibration(calibrationFrames) == calibrationFrames < MAX_FRAMES

\* Mutant: the transition is announced on every frame after calibration.
AfterCalibration(calibrationFrames) == calibrationFrames >= MAX_FRAMES

\* The frame on which the calibration-complete transition is announced.
AtCalibrationTransition(calibrationFrames) == calibrationFrames = MAX_FRAMES

\* Mutant: the confirmed state is not consulted.
DistractionConfirmedAgain(s, distractionDuration) ==
    /\ s.distractionCounter >= STABILIZATION_THRESHOLD
    /\ distractionDuration >= MIN_DISTRACTION_DURATION

DistractionConfirmed(s, distractionDuration) ==
    /\ s.distractionCounter >= STABILIZATION_THRESHOLD
    /\ distractionDuration >= MIN_DISTRACTION_DURATION
    /\ s.lastAttentionState # "distracted"

\* Mutant: focus is confirmed one frame late.
FocusConfirmedLate(s) ==
    /\ s.focusCounter > STABILIZATION_THRESHOLD
    /\ s.lastAttentionState # "focused"

FocusConfirmed(s) ==
    /\ s.focusCounter >= STABILIZATION_THRESHOLD
    /\ s.lastAttentionState # "focused"

\* Mutant: the names of the two triggers are swapped.
TriggerSwapped(attention) ==
    IF attention = "distracted" THEN "gaze_shift" ELSE "head_movement"

\* The trigger named in the attention_change entry of a confirmation: the
\* head-pose result decides, the gaze result is not consulted.
Trigger(attention) ==
    IF attention = "distracted" THEN "head_movement" ELSE "gaze_shift"

\* The distracted branch of onFaceMeshResults.
DistractedFrame(s, attention, t) ==
    LET s1 == [s EXCEPT !.distractionCounter = @ + 1,
                        !.focusCounter = 0,
                        !.distractionStartTime = IF @ = Null THEN t ELSE @]
        distractionDuration == t - s1.distractionStartTime
    IN  IF DistractionConfirmed(s1, distractionDuration)
        THEN AddToSessionLog(
                 [LogEvent(s1, Msg("Sustained distraction detected"), "violation", t)
                      EXCEPT !.lastAttentionState = "distracted"],
                 [type |-> "attention_change", timestamp |-> t, state |-> "distracted",
                  duration |-> distractionDuration,
                  trigger |-> Trigger(attention)], t)
        ELSE s1

\* The focused branch of onFaceMeshResults.
FocusedFrame(s, t) ==
    LET s1 == [s EXCEPT !.focusCounter = @ + 1,
                        !.distractionCounter = 0,
                        !.distractionStartTime = Null]
    IN  IF FocusConfirmed(s1)
        THEN AddToSessionLog(
                 [LogEvent(s1, Msg("Focus restored"), "info", t)
                      EXCEPT !.lastAttentionState = "focused"],
                 [type |-> "attention_change", timestamp |-> t, state |-> "focused"], t)
        ELSE s1

\* The calibration-complete transition of onFaceMeshResults.
CalibrationTransition(s, t) ==
    IF AtCalibrationTransition(s.calibrationFrames)
    THEN [AddToSessionLog(
              LogEvent(s, Msg("Calibration complete - Monitoring attention"), "info", t),
              [type |-> "calibration_complete", timestamp |-> t,
               baseline_yaw |-> s.baselineYaw,
               baseline_pitch |-> s.baselinePitch,
               baseline_gaze |-> s.baselineGaze], t)
             EXCEPT !.calibrationFrames = @ + 1]
    ELSE s

\* The per-frame classification: the instance after both analyses and the two
\* sub-classifications.
Classified(attention, g) ==
    [state |-> g.state, attention |-> attention, gaze |-> g.result]

ClassifyGaze(a, landmarks) == Classified(a.result, AnalyzeGaze(a.state, landmarks))

Classify(s, landmarks) == ClassifyGaze(AnalyzeAttention(s, landmarks), landmarks)

\* The attention state machine of onFaceMeshResults on a classified frame.
AttentionStep(c, t) ==
    IF c.attention = "distracted" \/ c.gaze = "distracted"
    THEN DistractedFrame(c.state, c.attention, t)
    ELSE FocusedFrame(c.state, t)

\* Variant: a result without landmarks ends the run of Distracted frames.
OnFaceMeshResultsGapEndsRun(s, multiFaceLandmarks, t) ==
    IF ~s.isMonitoring THEN s
    ELSE IF Len(multiFaceLandmarks) = 0
    THEN [s EXCEPT !.distractionCounter = 0, !.distractionStartTime = Null]
    ELSE
      LET landmarks == multiFaceLandmarks[1]
      IN  IF InCalibration(s.calibrationFrames)
          THEN [CalibrateBaseline(s, landmarks) EXCEPT !.calibrationFrames = @ + 1]
          ELSE AttentionStep(Classify(CalibrationTransition(s, t), landmarks), t)

\* multiFaceLandmarks is a sequence of landmark sets (empty: no face).
OnFaceMeshResults(s, multiFaceLandmarks, t) ==
    IF ~s.isMonitoring THEN s
    ELSE IF Len(multiFaceLandmarks) = 0 THEN s
    ELSE
      LET landmarks == multiFaceLandmarks[1]
      IN  IF InCalibration(s.calibrationFrames)
          THEN [CalibrateBaseline(s, landmarks) EXCEPT !.calibrationFrames = @ + 1]
          ELSE AttentionStep(Classify(CalibrationTransition(s, t), landmarks), t)

\* ------------------------------------------------------------ start / stop
\* startMonitoring up to its await of loadFaceApiModels.
StartMonitoring(s, t) ==
    LET s1 == [s EXCEPT !.isMonitoring = TRUE,
                        !.sessionStartTime = t,
                        !.lastAttentionState = "unknown",
                        !.lastPersonState = "unknown",
                        !.calibrationFrames = 0,
                        !.distractionCounter = 0,
                        !.focusCounter = 0,
                        !.unauthorizedCounter = 0,
                        !.authorizedCounter = 0,
                        !.sessionEvents = << >>,
                        !.sessionLogs = << >>,
                        !.lastFaceRecogTime = 0,
                        !.faceRecognitionStarted = FALSE,
                        !.violationFrames = << >>]
    IN  AddToSessionLog(
            LogEvent(s1, Msg("Monitoring session started - Calibrating..."), "info", t),
            [type |-> "session_start", timestamp |-> t, session_id |-> s1.sessionStartTime],
            t)

\* startMonitoring's catch block, entered when loadFaceApiModels rejects.
StartMonitoringFailed(s, t) == LogEvent(s, Msg("Failed to start monitoring"), "error", t)

StopMonitoring(s, t) ==
    LET s1 == LogEvent([s EXCEPT !.isMonitoring = FALSE],
                       Msg("Monitoring session stopped"), "info", t)
    IN  AddToSessionLog(s1,
            [type |-> "session_end", timestamp |-> t,
             session_duration |-> IF s1.sessionStartTime # Null
                                  THEN t - s1.sessionStartTime ELSE 0,
             total_violations |-> s1.totalViolations,
             attention_violations |-> s1.attentionViolations], t)

\* stopMonitoring defers the export by this many milliseconds.
EXPORT_DELAY == 1000

\* There is nothing to export.
NoDocument == [exported |-> FALSE]

\* The configuration of the program.
CONFIG ==
    [FACE_RECOGNITION |->
         [THRESHOLD |-> FACE_RECOGNITION_THRESHOLD, MIN_CONFIDENCE |-> Decimal(5, 1),
          INTERVAL_MS |-> INTERVAL_MS, INITIAL_DELAY_MS |-> INITIAL_DELAY_MS],
     CALIBRATION |-> [MAX_FRAMES |-> MAX_FRAMES, EMA_ALPHA |-> CALIBRATION_EMA_ALPHA],
     STABILIZATION |->
         [THRESHOLD |-> STABILIZATION_THRESHOLD, EMA_ALPHA |-> STABILIZATION_EMA_ALPHA],
     ATTENTION |->
         [MIN_DISTRACTION_DURATION |-> MIN_DISTRACTION_DURATION,
          HISTORY_SIZE |-> HISTORY_SIZE,
          YAW_THRESHOLD_BASE |-> YAW_THRESHOLD_BASE,
          YAW_THRESHOLD_MULTIPLIER |-> YAW_THRESHOLD_MULTIPLIER,
          YAW_THRESHOLD_OFFSET |-> YAW_THRESHOLD_OFFSET,
          PITCH_THRESHOLD_BASE |-> PITCH_THRESHOLD_BASE,
          PITCH_THRESHOLD_MULTIPLIER |-> PITCH_THRESHOLD_MULTIPLIER,
          PITCH_THRESHOLD_OFFSET |-> PITCH_THRESHOLD_OFFSET],
     GAZE |->
         [MIN_EYE_WIDTH |-> MIN_EYE_WIDTH, THRESHOLD_BASE |-> GAZE_THRESHOLD_BASE,
          THRESHOLD_MULTIPLIER |-> GAZE_THRESHOLD_MULTIPLIER,
          THRESHOLD_OFFSET |-> GAZE_THRESHOLD_OFFSET],
     FRAME_CAPTURE |->
         [SAVE_INTERVAL |-> SAVE_INTERVAL, CANVAS_WIDTH |-> 640, CANVAS_HEIGHT |-> 480],
     MEDIAPIPE |->
         [MIN_DETECTION_CONFIDENCE |-> Decimal(7, 1),
          MIN_TRACKING_CONFIDENCE |-> Decimal(7, 1), MAX_NUM_FACES |-> 3]]

\* new Date(value).getTime(): null converts to the time 0.
DateOf(value) == IF value = Null THEN 0 ELSE value

\* downloadSessionLogs: the session document, built from the instance as it
\* is when the export runs.
DownloadSessionLogs(s, t) ==
    IF Len(s.sessionLogs) = 0 THEN NoDocument
    ELSE [exported |-> TRUE,
          session_id |-> s.sessionStartTime,
          start_time |-> DateOf(s.sessionStartTime),
          end_time |-> t,
          duration_ms |-> IF s.sessionStartTime # Null
                          THEN t - s.sessionStartTime ELSE 0,
          total_violations |-> s.totalViolations,
          attention_violations |-> s.attentionViolations,
          total_events |-> Len(s.sessionEvents),
          baseline_yaw |-> s.baselineYaw,
          baseline_pitch |-> s.baselinePitch,
          baseline_gaze |-> s.baselineGaze,
          configuration |-> CONFIG,
          events |-> s.sessionLogs]

\* ----------------------------------------------------------- construction
\* The arguments of the constructor.  A stream or video element is an
\* object or null; a callback is a function, or something else by its typeof.
Args(stream, video, onLogEvent, onViolationUpdate) ==
    [stream |-> stream, video |-> video,
     onLogEvent |-> onLogEvent, onViolationUpdate |-> onViolationUpdate]

ValidArgs == Args("object", "object", "function", "function")

\* Mutant: onViolationUpdate is not checked.
ValidateInputsLax(args) ==
    IF args.stream = "null" THEN "Stream is required"
    ELSE IF args.video = "null" THEN "Video element is required"
    ELSE IF args.onLogEvent # "function"
    THEN "onLogEvent callback is required and must be a function"
    ELSE "none"

\* validateInputs: the message of the error it throws, "none" when it
\* returns.
ValidateInputs(args) ==
    IF args.stream = "null" THEN "Stream is required"
    ELSE IF args.video = "null" THEN "Video element is required"
    ELSE IF args.onLogEvent # "function"
    THEN "onLogEvent callback is required and must be a function"
    ELSE IF args.onViolationUpdate # "function"
    THEN "onViolationUpdate callback is required and must be a function"
    ELSE "none"

\* No instance: the constructor has not run, or it threw.
NoInstance == [constructed |-> FALSE]

\* localStorage.getItem('enrolledDescriptors'): kind is "absent", "malformed"
\* (JSON.parse or .map throws) or "array" (items: the stored descriptors).
Stored(kind, items) == [kind |-> kind, items |-> items]

NoDescriptors == [isNull |-> TRUE, items |-> << >>]

\* new Float32Array(d): every number of d rounded to single precision.
Float32Array(d) == [i \in 1..Len(d) |-> ToFloat32(d[i])]

LoadEnrolledFace(s, stored, t) ==
    IF stored.kind = "absent"
    THEN LogEvent(s, Msg("No enrolled face found. Please enroll first."), "error", t)
    ELSE IF stored.kind = "array"
    THEN [s EXCEPT !.enrolledDescriptors =
                       [isNull |-> FALSE,
                        items |-> [i \in 1..Len(stored.items) |->
                                      Float32Array(stored.items[i])]]]
    ELSE s

\* The constructor, for valid arguments.
NewProctoringSystem(stored, t) ==
    LoadEnrolledFace(
        [isMonitoring |-> FALSE,
         enrolledDescriptors |-> NoDescriptors,
         sessionStartTime |-> Null,
         totalViolations |-> 0,
         attentionViolations |-> 0,
         sessionEvents |-> << >>,
         sessionLogs |-> << >>,
         lastFaceCount |-> 0,
         lastAttentionState |-> "unknown",
         lastPersonState |-> "unknown",
         yawHistory |-> << >>,
         pitchHistory |-> << >>,
         gazeHistory |-> << >>,
         distractionCounter |-> 0,
         focusCounter |-> 0,
         unauthorizedCounter |-> 0,
         authorizedCounter |-> 0,
         lastViolationFrameSave |-> 0,
         lastFaceRecogTime |-> 0,
         faceRecognitionStarted |-> FALSE,
         calibrationFrames |-> 0,
         baselineYaw |-> Zero,
         baselinePitch |-> Zero,
         baselineGaze |-> Zero,
         distractionStartTime |-> Null,
         violationFrames |-> << >>,
         toBlobQueue |-> << >>,
         canvas |-> "object",
         faceDetection |-> "object",
         faceMesh |-> "object"],
        stored, t)

\* The callbacks loadEnrolledFace invokes.
LoadEnrolledFaceCallbacks(s, stored, t) ==
    IF stored.kind = "absent"
    THEN LogEventCallbacks(s, Msg("No enrolled face found. Please enroll first."),
                           "error", t)
    ELSE << >>

\* new ProctoringSystem(stream, video, onLogEvent, onViolationUpdate): the
\* error thrown ("none": it returned), the instance, whether the persisted
\* descriptors were read, the callbacks invoked and whether the MediaPipe
\* collaborators were set up.
Construct(args, stored, t) ==
    IF ValidateInputs(args) # "none"
    THEN [thrown |-> ValidateInputs(args), instance |-> NoInstance,
          storageRead |-> FALSE, calls |-> << >>, mediaPipe |-> FALSE]
    ELSE [thrown |-> "none", instance |-> NewProctoringSystem(stored, t),
          storageRead |-> TRUE,
          calls |-> LoadEnrolledFaceCallbacks(NoInstance, stored, t),
          mediaPipe |-> TRUE]

\* ------------------------------------------------------------ environment
\* A landmark, with its normalised coordinates given in 1/10000 of the
\* frame.
Landmark(x, y) == Point(Decimal(x, 4), Decimal(y, 4))

\* A scene in front of the camera, in 1/10000 of the frame: where the nose
\* tip is, the distance between the corners of the left and of the right
\* eye, the displacement of both irises from the middle of an eye of the
\* left eye's width, and the iris landmarks the mesh delivers.
Scene(noseX, noseY, eyeWidth, rightEyeWidth, irisShift, irises) ==
    [noseX |-> noseX, noseY |-> noseY, eyeWidth |-> eyeWidth,
     rightEyeWidth |-> rightEyeWidth, irisShift |-> irisShift, irises |-> irises]

\* Where landmark i of the scene is.
LandmarkX(scene, i) ==
    CASE i = 1 -> scene.noseX
      [] i = 33 -> 4000
      [] i = 263 -> 6000
      [] i = 133 -> 4000 + scene.eyeWidth
      [] i = 362 -> 6000 - scene.rightEyeWidth
      [] i = 468 -> 4000 + (scene.eyeWidth \div 2) + scene.irisShift
      [] i = 473 -> 6000 - (scene.eyeWidth \div 2) + scene.irisShift

LandmarkY(scene, i) == IF i = 1 THEN scene.noseY ELSE 4000

\* The landmark set the mesh collaborator delivers for the scene.
Face(scene) ==
    [i \in {1, 33, 263, 133, 362} \cup scene.irises |->
        Landmark(LandmarkX(scene, i), LandmarkY(scene, i))]

\* The poses of the subject.
Poses ==
    [neutral |-> Scene(5000, 4500, 600, 600, 0, {468, 473}),
     turned |-> Scene(1000, 4500, 600, 600, 0, {468, 473}),
     gaze_away |-> Scene(5000, 4500, 600, 600, 480, {468, 473}),
     turned_gaze_away |-> Scene(1000, 4500, 600, 600, 480, {468, 473}),
     eyes_shut |-> Scene(5000, 4500, 60, 60, 0, {468, 473}),
     no_iris |-> Scene(5000, 4500, 600, 600, 0, { }),
     one_iris |-> Scene(5000, 4500, 600, 600, 480, {468}),
     wink |-> Scene(5000, 4500, 600, 60, 480, {468, 473})]

\* multiFaceLandmarks for each pose, and for an empty frame.
Scenes ==
    [p \in DOMAIN Poses \cup {"no_face"} |->
        IF p = "no_face" THEN << >> ELSE << Face(Poses[p]) >>]

MultiFaceLandmarks(p) == Scenes[p]

AllPoses == {"neutral", "turned", "gaze_away", "eyes_shut", "no_iris", "no_face"}

\* The clock is well past every interval of CONFIG when the page loads
\* (Date.now() counts from 1970).
Epoch == INTERVAL_MS + SAVE_INTERVAL

\* ------------------------------------------------------------------ state
VARIABLES
    ps,              \* the ProctoringSystem instance (its fields, and the
                     \* canvas.toBlob callbacks it has requested)
    now,             \* Date.now()
    loading,         \* startMonitoring calls awaiting loadFaceApiModels
    chains,          \* live processVideo loops
    recognizing,     \* loops awaiting the detection of performFaceRecognition
    pose,            \* what the subject is doing in front of the camera
    poseChanges,     \* how often the subject has changed pose
    sessions,        \* history: startMonitoring calls so far
    scriptPos,       \* history: presence frames of PresenceScript fed so far
    presenceFrames,  \* history: presence frames processed so far
    landmarkFrames,  \* history: landmark-bearing frames processed this session
    fold,            \* history: the EMA of this session's calibration samples,
                     \* folded from 0
    runLen,          \* history: consecutive Distracted frames up to now, this session
    runStart,        \* history: time of the first frame of that run
    analysedFrames,  \* history: frames analysed since construction
    emptyResults,    \* history: the mesh results without landmarks handled
                     \* while monitoring, where a specification records them
    awaiting,        \* loops inside a tick: awaiting the presence result, the
                     \* mesh result, or about to reach the recognition gate
    captures,        \* history: times of the accepted frame-capture requests
    verifications,   \* history: start times of this session's verifications
    run,             \* history: the embeddings of the verification cycles in
                     \* a row, since the last cycle without a distance, the
                     \* last presence frame without exactly one face, and
                     \* the session start
    page,            \* the page around the instance: what it passes to the
                     \* constructor and finds stored, what the constructor
                     \* call did, the startMonitoring promises that rejected
    caught,          \* history: where in a tick processVideo's catch block
                     \* has caught an error so far
    timers,          \* the export timeouts of stopMonitoring not yet fired
    exported,        \* the session documents exported so far
    component,       \* the CornerWebcam component, where one is mounted
                     \* around the instance: its ref, its indicator, its
                     \* intervals
    dropped          \* the instances the component has replaced in its ref
                     \* while they had callbacks pending, each with its
                     \* pending loads, loops and export timeouts

vars == << ps, now, loading, chains, recognizing, pose, poseChanges, sessions, scriptPos, presenceFrames,
           landmarkFrames, fold, runLen, runStart, analysedFrames, emptyResults,
           awaiting, captures, verifications, run, page, caught, timers, exported,
           component, dropped >>

sceneVars == << pose, poseChanges >>

meshHistory == << landmarkFrames, fold, runLen, runStart, analysedFrames, emptyResults >>

\* The histories of frame capture and identity verification.
audit == << captures, verifications, run >>

\* The page, the caught errors, the exports and the component.
host == << page, caught, exported, component, dropped >>

\* Every loop is at the entry of a tick.
NoneAwaiting == [presence |-> 0, mesh |-> 0, gate |-> 0]

\* The loops that are between two ticks: scheduled, not yet entered.
AtEntry == chains - recognizing - awaiting.presence - awaiting.mesh - awaiting.gate

\* The capture history after a step: saveViolationFrame accepted a request
\* when the step queued a canvas.toBlob callback.
CapturesAfter ==
    IF Len(ps'.toBlobQueue) > Len(ps.toBlobQueue) THEN Append(captures, now) ELSE captures

\* ----------------------------------------------------------------- bounds
MaxFaces == 3
MaxSessions == 1
MaxLog == 6
MaxTicks == 1
MaxPresenceFrames == 2
TimeStep == 2000

\* The numbers of a descriptor, given in 1/10000.
Numbers(units) == [i \in 1..Len(units) |-> Decimal(units[i], 4)]

\* The descriptor (a Float32Array) the recognition collaborator computes for
\* a face.
Embedding(units) == Float32Array(Numbers(units))

\* What the page may hold under 'enrolledDescriptors': nothing, something
\* unparsable, an empty array, two descriptors.
StoredValues ==
    { Stored("absent", << >>), Stored("malformed", << >>),
      Stored("array", << >>),
      Stored("array", << Numbers(<< 0, 0 >>), Numbers(<< 20000, 0 >>) >>) }

Enrolled == Stored("array", << Numbers(<< 3000, 4000 >>) >>)

\* No CornerWebcam component is mounted: the instance is driven directly.
Unmounted == [mounted |-> FALSE]

\* Nothing has been started on the page; the subject is in pose p.
NothingStarted(p) ==
    /\ now = Epoch
    /\ loading = 0
    /\ chains = 0
    /\ recognizing = 0
    /\ pose = p
    /\ poseChanges = 0
    /\ sessions = 0
    /\ scriptPos = 0
    /\ presenceFrames = 0
    /\ landmarkFrames = 0
    /\ fold = [yaw |-> Zero, pitch |-> Zero, gaze |-> Zero]
    /\ runLen = 0
    /\ runStart = Null
    /\ analysedFrames = 0
    /\ emptyResults = << >>
    /\ awaiting = NoneAwaiting
    /\ captures = << >>
    /\ verifications = << >>
    /\ run = << >>
    /\ caught = { }
    /\ timers = << >>
    /\ exported = << >>
    /\ dropped = << >>

\* The page before it calls the constructor with args, with stored under
\* 'enrolledDescriptors'.
PageBefore(args, stored) ==
    [args |-> args, stored |-> stored, called |-> FALSE, thrown |-> "none",
     storageRead |-> FALSE, calls |-> << >>, mediaPipe |-> FALSE, rejected |-> 0]

\* The page after the constructor call.
PageAfter(pg, t) ==
    LET made == Construct(pg.args, pg.stored, t)
    IN  [pg EXCEPT !.called = TRUE, !.thrown = made.thrown,
                   !.storageRead = made.storageRead, !.calls = made.calls,
                   !.mediaPipe = made.mediaPipe]

\* The page has constructed the instance; nothing has been started.
Constructed(stored, p) ==
    /\ ps = NewProctoringSystem(stored, Epoch)
    /\ page = PageAfter(PageBefore(ValidArgs, stored), Epoch)
    /\ component = Unmounted
    /\ NothingStarted(p)

Init == Constructed(Enrolled, "neutral")

\* The same, with the subject in any of the given poses.
InitScene(poses) == \E p \in poses : Constructed(Enrolled, p)

\* ---------------------------------------------------------------- actions
\* The session log has room (a bound of the model, not of the program).
LogFits(s, max) == Len(s.sessionLogs) <= max

\* startMonitoring() is called; it returns at its await.
StartMonitoringCall ==
    /\ ps' = StartMonitoring(ps, now)
    /\ loading' = loading + 1
    /\ sessions' = sessions + 1
    /\ scriptPos' = 0
    /\ landmarkFrames' = 0
    /\ fold' = [yaw |-> Zero, pitch |-> Zero, gaze |-> Zero]
    /\ runLen' = 0
    /\ runStart' = Null
    /\ verifications' = << >>
    /\ run' = << >>
    /\ UNCHANGED << recognizing, now, chains, sceneVars, host, timers, presenceFrames, analysedFrames,
                    emptyResults, awaiting, captures >>

\* Where the entry of a tick throws on instance s: at drawImage when
\* dispose has released the canvas and its context, at faceDetection.send
\* when it has released the presence collaborator; "none" when the frame is
\* drawn and dispatched.
EntryThrows(s) ==
    IF s.canvas = "null" THEN "draw"
    ELSE IF s.faceDetection = "null" THEN "presence"
    ELSE "none"

\* A monitoring instance enters a tick: the frame is drawn and dispatched to
\* the presence collaborator, or the error of a released canvas or
\* collaborator is caught and the tick is over.
TickEntered ==
    /\ awaiting' = IF EntryThrows(ps) = "none"
                   THEN [awaiting EXCEPT !.presence = @ + 1] ELSE awaiting
    /\ caught' = IF EntryThrows(ps) = "none"
                 THEN caught ELSE caught \cup { EntryThrows(ps) }

\* loadFaceApiModels resolves: startMonitoring goes on to call
\* processVideo(), which returns at once when the instance is not monitoring
\* and otherwise draws the frame and dispatches it to the presence
\* collaborator: a loop is live, inside its first tick.
LoadModelsResolved ==
    /\ loading > 0
    /\ loading' = loading - 1
    /\ chains' = IF ps.isMonitoring THEN chains + 1 ELSE chains
    /\ IF ps.isMonitoring THEN TickEntered ELSE UNCHANGED << awaiting, caught >>
    /\ UNCHANGED << recognizing, ps, now, sceneVars, page, exported, component, dropped, timers,
                    sessions, scriptPos, presenceFrames, meshHistory, audit >>

\* loadFaceApiModels rejects: startMonitoring's catch block logs the failure
\* and rethrows, so the promise startMonitoring returned rejects and
\* processVideo is not called.
LoadModelsRejected ==
    /\ loading > 0
    /\ loading' = loading - 1
    /\ ps' = StartMonitoringFailed(ps, now)
    /\ page' = [page EXCEPT !.rejected = @ + 1]
    /\ UNCHANGED << recognizing, now, chains, sceneVars, caught, exported, component, dropped, timers, sessions, scriptPos, presenceFrames, meshHistory,
                    awaiting, audit >>

\* stopMonitoring() is called; the export is set to run EXPORT_DELAY later.
\* The timeout remembers the id of the session that was stopped (history).
StopMonitoringCall ==
    /\ ps' = StopMonitoring(ps, now)
    /\ timers' = Append(timers, [due |-> now + EXPORT_DELAY, session |-> ps.sessionStartTime])
    /\ UNCHANGED << recognizing, now, loading, chains, sceneVars, host, sessions, scriptPos, presenceFrames, meshHistory,
                    awaiting, audit >>

\* A processVideo loop finds the instance not monitoring at tick entry and
\* ends.
ProcessVideoExit ==
    /\ AtEntry > 0
    /\ ~ps.isMonitoring
    /\ chains' = chains - 1
    /\ UNCHANGED << recognizing, ps, now, loading, sceneVars, host, timers, sessions, scriptPos, presenceFrames, meshHistory,
                    awaiting, audit >>

\* The run of verification cycles after a presence frame: a processed frame
\* without exactly one face ends it.
RunAfterPresence(faceCount) ==
    IF ps.isMonitoring /\ faceCount # 1 THEN << >> ELSE run

\* The run after the recognition gate was passed: a cycle that is skipped
\* ends it.
RunAfterGate == IF SkipsRecognition(ps) THEN << >> ELSE run

\* The run after a detection: an embedding extends it, anything else ends it.
RunAfterDetection(detection) ==
    IF detection.kind = "face" THEN Append(run, detection.descriptor) ELSE << >>

\* faceDetection.send delivers its result to onFaceDetectionResults.
PresenceDelivered(faceCount) ==
    /\ ps' = OnFaceDetectionResults(ps, faceCount, now)
    /\ presenceFrames' = IF ps.isMonitoring THEN presenceFrames + 1 ELSE presenceFrames
    /\ captures' = CapturesAfter
    /\ run' = RunAfterPresence(faceCount)
    /\ UNCHANGED << now, loading, sceneVars, page, exported, component, dropped, timers, sessions,
                    meshHistory, verifications >>

\* The browser delivers the oldest pending canvas.toBlob callback.
ToBlobCallback(hasBlob) ==
    /\ Len(ps.toBlobQueue) > 0
    /\ ps' = ToBlobDelivered(ps, hasBlob, now)
    /\ UNCHANGED << recognizing, now, loading, chains, sceneVars, host, timers, sessions, scriptPos, presenceFrames, meshHistory,
                    awaiting, audit >>

AdvanceTime(maxTicks) ==
    /\ (now - Epoch) \div TimeStep < maxTicks
    /\ now' = now + TimeStep
    /\ UNCHANGED << recognizing, ps, loading, chains, sceneVars, host, timers, sessions, scriptPos, presenceFrames, meshHistory,
                    awaiting, audit >>

\* The raw signals of a landmark set: what a calibration frame folds into the
\* baselines.
Signals(raw, gazeComputable, gaze) ==
    [yaw |-> raw.yaw, pitch |-> raw.pitch, gazeComputable |-> gazeComputable, gaze |-> gaze]

RawSignals(landmarks) ==
    Signals(RawHeadAngles(landmarks), GazeComputable(landmarks),
            IF GazeComputable(landmarks) THEN AvgGaze(landmarks) ELSE Zero)

\* One step of the moving average of the raw samples, nine parts of the
\* average so far to one part of the sample; the gaze folds only the samples
\* where it is computable.
FoldSample(f, raw) ==
    LET step(average, sample) ==
            Add(Mul(average, Sub(FromInt(1), Decimal(1, 1))), Mul(sample, Decimal(1, 1)))
    IN  [yaw |-> step(f.yaw, raw.yaw),
         pitch |-> step(f.pitch, raw.pitch),
         gaze |-> IF raw.gazeComputable THEN step(f.gaze, raw.gaze) ELSE f.gaze]

\* What onFaceMeshResults makes of a post-calibration frame.
Verdict(c) ==
    IF c.attention = "distracted" \/ c.gaze = "distracted" THEN "distracted" ELSE "focused"

FrameClass(s, landmarks, t) == Verdict(Classify(CalibrationTransition(s, t), landmarks))

\* faceMesh.send delivers its result to onFaceMeshResults.  The history
\* counts the landmark-bearing frames processed in the session, folds the raw
\* signals of the first MAX_FRAMES of them, and follows the run of
\* consecutive Distracted frames after them.
Processed(multiFaceLandmarks) == ps.isMonitoring /\ Len(multiFaceLandmarks) > 0

\* The run of consecutive Distracted frames after an analysed frame.
RunFollowed(distracted) ==
    /\ runLen' = IF distracted THEN runLen + 1 ELSE 0
    /\ runStart' = IF distracted THEN (IF runLen = 0 THEN now ELSE runStart) ELSE Null

MeshRecorded(multiFaceLandmarks) ==
    IF ~Processed(multiFaceLandmarks)
    THEN UNCHANGED << landmarkFrames, fold, runLen, runStart, analysedFrames >>
    ELSE IF landmarkFrames < MAX_FRAMES
    THEN /\ landmarkFrames' = landmarkFrames + 1
         /\ fold' = FoldSample(fold, RawSignals(multiFaceLandmarks[1]))
         /\ UNCHANGED << runLen, runStart, analysedFrames >>
    ELSE /\ landmarkFrames' = landmarkFrames + 1
         /\ RunFollowed(FrameClass(ps, multiFaceLandmarks[1], now) = "distracted")
         /\ analysedFrames' = analysedFrames + 1
         /\ UNCHANGED fold

MeshResult(multiFaceLandmarks) ==
    /\ ps' = OnFaceMeshResults(ps, multiFaceLandmarks, now)
    /\ MeshRecorded(multiFaceLandmarks)

MeshHandled ==
    /\ MeshResult(MultiFaceLandmarks(pose))
    /\ captures' = CapturesAfter
    /\ UNCHANGED << now, loading, sceneVars, host, timers, sessions, scriptPos, presenceFrames,
                    verifications, run >>

MeshDelivered == MeshHandled /\ UNCHANGED emptyResults

\* Recognition is due at the gate of processVideo: the gate is passed, and
\* the loop waits for the detection unless performFaceRecognition returns at
\* once.
RecognitionStarted ==
    /\ RecognitionDue(ps, now)
    /\ ps' = BeginFaceRecognition(ps, now)
    /\ recognizing' = IF SkipsRecognition(ps) THEN recognizing ELSE recognizing + 1
    /\ verifications' = Append(verifications, now)
    /\ run' = RunAfterGate
    /\ UNCHANGED << now, loading, chains, sceneVars, host, timers, sessions, scriptPos, presenceFrames,
                    meshHistory, captures >>

\* The detection awaited by performFaceRecognition arrives.
RecognitionResolved(detection) ==
    /\ recognizing > 0
    /\ ps' = FaceRecognitionResult(ps, detection, now)
    /\ recognizing' = recognizing - 1
    /\ captures' = CapturesAfter
    /\ run' = RunAfterDetection(detection)
    /\ UNCHANGED << now, loading, chains, sceneVars, host, timers, sessions, scriptPos, presenceFrames,
                    meshHistory, awaiting, verifications >>

\* ---------------------------------------------- the tick, step by step
\* A scheduled processVideo call finds the instance monitoring, draws the
\* frame and dispatches it to the presence collaborator.
TickEntry ==
    /\ AtEntry > 0
    /\ ps.isMonitoring
    /\ TickEntered
    /\ UNCHANGED << ps, now, loading, chains, recognizing, sceneVars, page, exported,
                    component, dropped, timers, sessions, scriptPos, presenceFrames, meshHistory,
                    audit >>

\* The presence result of a tick arrives; the tick goes on to dispatch the
\* frame to the mesh collaborator.  When dispose has released the mesh
\* collaborator the dispatch throws: the error is caught and the tick is
\* over.
PresenceResult(faceCount) ==
    /\ awaiting.presence > 0
    /\ PresenceDelivered(faceCount)
    /\ awaiting' = IF ps.faceMesh = "null"
                   THEN [awaiting EXCEPT !.presence = @ - 1]
                   ELSE [awaiting EXCEPT !.presence = @ - 1, !.mesh = @ + 1]
    /\ caught' = IF ps.faceMesh = "null" THEN caught \cup { "mesh" } ELSE caught
    /\ UNCHANGED << recognizing, chains >>

TickPresence(faceCount) == PresenceResult(faceCount) /\ UNCHANGED scriptPos

\* The mesh result of a tick arrives; the tick goes on to the recognition
\* gate.
TickMesh ==
    /\ awaiting.mesh > 0
    /\ MeshDelivered
    /\ awaiting' = [awaiting EXCEPT !.mesh = @ - 1, !.gate = @ + 1]
    /\ UNCHANGED << recognizing, chains >>

\* The tick passes the recognition gate and calls performFaceRecognition.
TickRecognition ==
    /\ awaiting.gate > 0
    /\ RecognitionStarted
    /\ awaiting' = [awaiting EXCEPT !.gate = @ - 1]

\* The tick finds the gate closed and schedules the next tick.
TickNoRecognition ==
    /\ awaiting.gate > 0
    /\ ~RecognitionDue(ps, now)
    /\ awaiting' = [awaiting EXCEPT !.gate = @ - 1]
    /\ UNCHANGED << ps, now, loading, chains, recognizing, sceneVars, host, timers, sessions, scriptPos,
                    presenceFrames, meshHistory, audit >>

\* Time passes: ms milliseconds, up to limit after the page load.
Elapse(ms, limit) ==
    /\ now + ms - Epoch <= limit
    /\ now' = now + ms
    /\ UNCHANGED << ps, loading, chains, recognizing, sceneVars, host, timers, sessions, scriptPos,
                    presenceFrames, meshHistory, awaiting, audit >>

\* When the recognition gate opens next.
GateDueAt ==
    IF ps.faceRecognitionStarted
    THEN ps.lastFaceRecogTime + INTERVAL_MS
    ELSE ps.sessionStartTime + INITIAL_DELAY_MS

\* Time passes until 1 ms before the gate opens, and then until it opens.
GateWaits ==
    IF now < GateDueAt - 1 THEN { GateDueAt - 1 - now }
    ELSE IF now < GateDueAt THEN { 1 }
    ELSE { }

\* The subject changes pose.
ChangePose(p, maxChanges) ==
    /\ poseChanges < maxChanges
    /\ p # pose
    /\ pose' = p
    /\ poseChanges' = poseChanges + 1
    /\ UNCHANGED << recognizing, ps, now, loading, chains, sessions, scriptPos, presenceFrames, meshHistory,
                    awaiting, audit, host, timers >>

\* ------------------------------------------- the presence specification
\* What detectSingleFace yields for the enrolled person, and for a stranger.
EnrolledFace == Detection("face", Embedding(<< 3000, 4000 >>))

Stranger == Detection("face", Embedding(<< 9000, 12000 >>))

Next ==
    \/ sessions < MaxSessions /\ StartMonitoringCall /\ LogFits(ps', MaxLog)
    \/ LoadModelsResolved
    \/ StopMonitoringCall /\ LogFits(ps', MaxLog)
    \/ ProcessVideoExit
    \/ presenceFrames + awaiting.presence < MaxPresenceFrames /\ TickEntry
    \/ \E faceCount \in 0..MaxFaces : TickPresence(faceCount) /\ LogFits(ps', MaxLog)
    \/ TickMesh
    \/ TickRecognition
    \/ TickNoRecognition
    \/ RecognitionResolved(EnrolledFace)
    \/ \E hasBlob \in BOOLEAN : ToBlobCallback(hasBlob) /\ LogFits(ps', MaxLog)
    \/ AdvanceTime(MaxTicks)

Spec == Init /\ [][Next]_vars

\* The events a step appended to the display list, and the entries it
\* appended to the session log.
NewEvents == SubSeq(ps'.sessionEvents, Len(ps.sessionEvents) + 1, Len(ps'.sessionEvents))

NewLogs == SubSeq(ps'.sessionLogs, Len(ps.sessionLogs) + 1, Len(ps'.sessionLogs))

IsEvent(e, text, type) == e.message = Msg(text) /\ e.type = type

IsPresenceEvent(e) ==
    \/ IsEvent(e, "No face detected", "violation")
    \/ IsEvent(e, "Multiple faces detected", "violation")
    \/ IsEvent(e, "Single face detected - OK", "info")

IsFaceCountChange(entry) == entry.type = "face_count_change"

\* C2: a presence frame processed while monitoring, with count c after
\* previous count p, emits 'No face detected' iff c = 0 and p # 0, 'Multiple
\* faces detected' iff c > 1 and p <= 1, 'Single face detected - OK' iff c = 1
\* and p # 1, and nothing else: at most one event per frame, undebounced.
C2_PresenceEvents ==
    [][\A c \in 0..MaxFaces :
          (ps.isMonitoring /\ TickPresence(c)) =>
              LET p == ps.lastFaceCount
                  emitted(text, type) ==
                      \E i \in 1..Len(NewEvents) : IsEvent(NewEvents[i], text, type)
              IN  /\ Len(NewEvents) <= 1
                  /\ \A i \in 1..Len(NewEvents) : IsPresenceEvent(NewEvents[i])
                  /\ emitted("No face detected", "violation") <=> (c = 0 /\ p # 0)
                  /\ emitted("Multiple faces detected", "violation") <=> (c > 1 /\ p <= 1)
                  /\ emitted("Single face detected - OK", "info") <=> (c = 1 /\ p # 1)
      ]_vars

\* A second face appeared and then nobody was left: both violations were
\* emitted on their frames, while monitoring.
C2_Witness ==
    /\ ps.isMonitoring
    /\ ps.lastFaceCount = 0
    /\ \E i \in 1..Len(ps.sessionEvents) :
           IsEvent(ps.sessionEvents[i], "No face detected", "violation")
    /\ \E i \in 1..Len(ps.sessionEvents) :
           IsEvent(ps.sessionEvents[i], "Multiple faces detected", "violation")

\* C3: a presence frame processed while monitoring appends one
\* face_count_change entry (previous_count p, current_count c) iff c # p, and
\* leaves the stored previous count equal to c.
C3_FaceCountChange ==
    [][\A c \in 0..MaxFaces :
          (ps.isMonitoring /\ TickPresence(c)) =>
              LET p == ps.lastFaceCount
                  changes == SelectSeq(NewLogs, IsFaceCountChange)
              IN  /\ ps'.lastFaceCount = c
                  /\ Len(changes) = IF c # p THEN 1 ELSE 0
                  /\ \A i \in 1..Len(changes) :
                         /\ changes[i].previous_count = p
                         /\ changes[i].current_count = c
      ]_vars

\* The change 2 -> 3 was logged although it emits no presence event.
C3_Witness ==
    \E i \in 1..Len(ps.sessionLogs) :
        /\ ps.sessionLogs[i].type = "face_count_change"
        /\ ps.sessionLogs[i].previous_count = 2
        /\ ps.sessionLogs[i].current_count = 3
        /\ i = Len(ps.sessionLogs)
        /\ ps.lastFaceCount = 3

\* ------------------------------------------- the scripted presence feed
\* The face counts of the presence-transition scenario.
PresenceScript == << 1, 1, 0, 0, 1, 2, 1 >>

\* The presence result of a tick is the next count of the scenario.
ScriptedPresence ==
    /\ scriptPos < Len(PresenceScript)
    /\ ps.isMonitoring
    /\ PresenceResult(PresenceScript[scriptPos + 1])
    /\ scriptPos' = scriptPos + 1

NextScript ==
    \/ sessions < MaxSessions /\ StartMonitoringCall
    \/ LoadModelsResolved
    \/ TickEntry
    \/ ScriptedPresence
    \/ TickMesh
    \/ TickRecognition
    \/ TickNoRecognition
    \/ RecognitionResolved(EnrolledFace)
    \/ \E hasBlob \in BOOLEAN : ToBlobCallback(hasBlob)
    \/ AdvanceTime(MaxTicks)

SpecScript == Init /\ [][NextScript]_vars

\* The presence events of the session, as (text, severity) pairs in order.
PresenceEvents ==
    LET es == SelectSeq(ps.sessionEvents, IsPresenceEvent)
    IN  [i \in 1..Len(es) |-> << es[i].message.text, es[i].type >>]

FaceCountChanges == SelectSeq(ps.sessionLogs, IsFaceCountChange)

NoFaceV == << "No face detected", "violation" >>

MultipleV == << "Multiple faces detected", "violation" >>

SingleI == << "Single face detected - OK", "info" >>

\* C1 as stated: after the counts 1,1,0,0,1,2,1 of a freshly started
\* session exactly four presence events have been emitted (No face, Single,
\* Multiple, Single) and exactly four face_count_change entries appended.
C1_AsStated ==
    scriptPos = Len(PresenceScript) =>
        /\ PresenceEvents = << NoFaceV, SingleI, MultipleV, SingleI >>
        /\ Len(FaceCountChanges) = 4

\* What the scenario has emitted after each of its frames when the previous
\* count was 0 at the start of the session.
ExpectedPresenceEvents(fed) ==
    CASE fed = 0 -> << >>
      [] fed \in {1, 2} -> << SingleI >>
      [] fed \in {3, 4} -> << SingleI, NoFaceV >>
      [] fed = 5 -> << SingleI, NoFaceV, SingleI >>
      [] fed = 6 -> << SingleI, NoFaceV, SingleI, MultipleV >>
      [] fed = 7 -> << SingleI, NoFaceV, SingleI, MultipleV, SingleI >>

\* C1, amended: in the first session of a new instance (previous count 0),
\* the counts 1,1,0,0,1,2,1 emit exactly five presence events - 'Single face
\* detected - OK' at the first 1, then 'No face detected' at the first 0,
\* 'Single face detected - OK' at the next 1, 'Multiple faces detected' at
\* the 2 and 'Single face detected - OK' at the final 1 - and append exactly
\* five face_count_change entries, one per change of count.
C1_PresenceScript ==
    sessions = 1 =>
        /\ PresenceEvents = ExpectedPresenceEvents(scriptPos)
        /\ Len(FaceCountChanges) = Len(PresenceEvents)
        /\ scriptPos = Len(PresenceScript) => Len(FaceCountChanges) = 5

\* The whole scenario has been fed to the first session.
C1_Witness ==
    /\ sessions = 1
    /\ scriptPos = Len(PresenceScript)
    /\ ps.lastFaceCount = 1
    /\ Len(PresenceEvents) = 5

\* ------------------------------------------- the attention specification
\* The first session of an instance, with one subject in front of the camera:
\* mesh frames, pose changes, time.
MaxAnalysisFrames == 4
MaxPoseChanges == 1
MaxMeshTicks == 1

\* No calibration is under way: the subject holds still through calibration.
OutsideCalibration == landmarkFrames = 0 \/ landmarkFrames >= MAX_FRAMES

MaxEmptyFrames == 1

\* The session may be fed another frame: it is calibrating or has analysed
\* fewer than MaxAnalysisFrames frames, and at most MaxEmptyFrames of the
\* frames fed so far were without landmarks or after these.
FrameBudget ==
    /\ landmarkFrames < MAX_FRAMES \/ analysedFrames < MaxAnalysisFrames
    /\ presenceFrames + awaiting.presence < MAX_FRAMES + MaxAnalysisFrames + MaxEmptyFrames

NextAttention ==
    \/ sessions = 0 /\ StartMonitoringCall
    \/ LoadModelsResolved
    \/ ps.isMonitoring /\ OutsideCalibration /\ StopMonitoringCall
    \/ ProcessVideoExit
    \/ FrameBudget /\ TickEntry
    \/ TickPresence(1)
    \/ TickMesh
    \/ TickRecognition
    \/ TickNoRecognition
    \/ RecognitionResolved(EnrolledFace)
    \/ OutsideCalibration /\ \E p \in AllPoses : ChangePose(p, MaxPoseChanges)
    \/ \E hasBlob \in BOOLEAN : ToBlobCallback(hasBlob)
    \/ OutsideCalibration /\ AdvanceTime(MaxMeshTicks)

SpecAttention == InitScene(AllPoses) /\ [][NextAttention]_vars

\* The attention events and entries among those a step appended.
IsAttentionEvent(e) ==
    \/ IsEvent(e, "Sustained distraction detected", "violation")
    \/ IsEvent(e, "Focus restored", "info")

IsAttentionChange(entry) == entry.type = "attention_change"

IsFocusRestored(e) == IsEvent(e, "Focus restored", "info")

IsFocusedEntry(entry) == entry.type = "attention_change" /\ entry.state = "focused"

\* A landmark-bearing frame is processed after the calibration frames.
AnalysedFrame ==
    /\ ps.isMonitoring
    /\ landmarkFrames >= MAX_FRAMES
    /\ Len(MultiFaceLandmarks(pose)) > 0
    /\ TickMesh

\* C5: a post-calibration frame classified Focused adds 1 to focusCounter and
\* zeroes distractionCounter; 'Focus restored' (info), the
\* attention_change/focused entry and confirmed state := Focused happen on
\* that frame exactly when focusCounter has reached 3 and the confirmed state
\* was not Focused (Unknown included), whatever time has passed.
C5_FocusedFrame ==
    [][(AnalysedFrame /\ FrameClass(ps, MultiFaceLandmarks(pose)[1], now) = "focused") =>
          LET confirms == ps.focusCounter + 1 >= 3 /\ ps.lastAttentionState # "focused"
          IN  /\ ps'.focusCounter = ps.focusCounter + 1
              /\ ps'.distractionCounter = 0
              /\ Len(SelectSeq(NewEvents, IsFocusRestored)) = IF confirms THEN 1 ELSE 0
              /\ Len(SelectSeq(NewLogs, IsFocusedEntry)) = IF confirms THEN 1 ELSE 0
              /\ Len(SelectSeq(NewEvents, IsAttentionEvent))
                     = Len(SelectSeq(NewEvents, IsFocusRestored))
              /\ ps'.lastAttentionState =
                     IF confirms THEN "focused" ELSE ps.lastAttentionState
      ]_vars

\* Focus was confirmed out of Unknown: the third Focused frame in a row has
\* just been processed, with no time passed since the session started.
C5_Witness ==
    /\ ps.focusCounter = 3
    /\ ps.lastAttentionState = "focused"
    /\ landmarkFrames = MAX_FRAMES + 3
    /\ now = ps.sessionStartTime
    /\ \E i \in 1..Len(ps.sessionEvents) : IsFocusRestored(ps.sessionEvents[i])

\* --------------------------------------------- the restart specification
\* The instance is started again once the previous start has loaded its
\* models and is not in the middle of calibrating; the subject faces the
\* camera or has turned away; time passes between sessions.
MaxRestarts == 1

RestartPoses == { "neutral", "turned" }

\* The session may be fed another frame: it is calibrating or has analysed
\* fewer than MaxAnalysisFrames frames.
SessionFrameBudget == landmarkFrames < MAX_FRAMES \/ analysedFrames < MaxAnalysisFrames

NextRestart ==
    \/ /\ sessions < 1 + MaxRestarts
       /\ OutsideCalibration
       /\ loading = 0
       /\ StartMonitoringCall
    \/ LoadModelsResolved
    \/ SessionFrameBudget /\ TickEntry
    \/ TickPresence(1)
    \/ TickMesh
    \/ TickRecognition
    \/ TickNoRecognition
    \/ RecognitionResolved(EnrolledFace)
    \/ OutsideCalibration /\ \E p \in RestartPoses : ChangePose(p, MaxPoseChanges)
    \/ \E hasBlob \in BOOLEAN : ToBlobCallback(hasBlob)
    \/ landmarkFrames = 0 /\ AdvanceTime(MaxMeshTicks)

SpecRestart == InitScene(RestartPoses) /\ [][NextRestart]_vars

IsSustainedDistraction(e) == IsEvent(e, "Sustained distraction detected", "violation")

IsDistractedEntry(entry) == entry.type = "attention_change" /\ entry.state = "distracted"

IsCalibrationComplete(entry) == entry.type = "calibration_complete"

IsCalibrationCompleteEvent(e) ==
    IsEvent(e, "Calibration complete - Monitoring attention", "info")

\* The step is the processing of the session's n-th landmark-bearing frame.
ProcessesFrame(n) == landmarkFrames = n - 1 /\ landmarkFrames' = n /\ sessions' = sessions

\* C4 as stated: after calibration, the Distracted confirmation ('Sustained
\* distraction detected', the attention_change/distracted entry, confirmed
\* state := Distracted) fires on a frame iff the frame is classified
\* Distracted, the run of consecutive Distracted frames has reached 3, the
\* first frame of that run lies at least 2000 ms back, and the confirmed
\* state is not already Distracted.
C4_AsStated ==
    [][AnalysedFrame =>
          LET distracted == FrameClass(ps, MultiFaceLandmarks(pose)[1], now) = "distracted"
              fires == Len(SelectSeq(NewEvents, IsSustainedDistraction)) > 0
          IN  /\ fires <=> /\ distracted
                           /\ runLen' >= 3
                           /\ now - runStart' >= 2000
                           /\ ps.lastAttentionState # "distracted"
              /\ fires => /\ Len(SelectSeq(NewEvents, IsSustainedDistraction)) = 1
                          /\ Len(SelectSeq(NewLogs, IsDistractedEntry)) = 1
                          /\ ps'.lastAttentionState = "distracted"
      ]_vars

\* C6: from startMonitoring until 45 landmark-bearing frames of the session
\* have been processed, no step emits 'Sustained distraction detected' or
\* 'Focus restored' or appends an attention_change entry, and the
\* distraction counter, the focus counter and the confirmed attention state
\* stay as startMonitoring left them (0, 0, Unknown).
C6_NoDecisionWhileCalibrating ==
    [][(sessions >= 1 /\ landmarkFrames < 45 /\ sessions' = sessions) =>
          /\ Len(SelectSeq(NewEvents, IsAttentionEvent)) = 0
          /\ Len(SelectSeq(NewLogs, IsAttentionChange)) = 0
          /\ ps'.distractionCounter = ps.distractionCounter
          /\ ps'.focusCounter = ps.focusCounter
          /\ ps'.lastAttentionState = ps.lastAttentionState
          /\ ps'.distractionCounter = 0
          /\ ps'.focusCounter = 0
          /\ ps'.lastAttentionState = "unknown"
      ]_vars

\* A restarted session has processed its 45 calibration frames, after a
\* first session that had counted a distracted frame: counters and confirmed
\* state are as startMonitoring left them.
C6_Witness ==
    /\ sessions = 2
    /\ landmarkFrames = 45
    /\ analysedFrames > 0
    /\ ps.distractionStartTime # Null
    /\ ps.distractionCounter = 0
    /\ ps.focusCounter = 0
    /\ ps.lastAttentionState = "unknown"

\* C7: in every session the calibration_complete entry and the 'Calibration
\* complete' info event are emitted by the processing of the session's 46th
\* landmark-bearing frame and by no other step (so exactly once, the log
\* being restarted with the session), and the entry's baselines are the
\* baselines the instance holds at that moment.
C7_CalibrationCompleteOnce ==
    [][(sessions >= 1 /\ sessions' = sessions) =>
          LET entries == SelectSeq(NewLogs, IsCalibrationComplete)
              events == SelectSeq(NewEvents, IsCalibrationCompleteEvent)
          IN  /\ Len(entries) = IF ProcessesFrame(46) THEN 1 ELSE 0
              /\ Len(events) = Len(entries)
              /\ \A i \in 1..Len(entries) :
                     /\ entries[i].baseline_yaw = ps.baselineYaw
                     /\ entries[i].baseline_pitch = ps.baselinePitch
                     /\ entries[i].baseline_gaze = ps.baselineGaze
                     /\ entries[i].baseline_yaw = ps'.baselineYaw
                     /\ entries[i].baseline_pitch = ps'.baselinePitch
                     /\ entries[i].baseline_gaze = ps'.baselineGaze
      ]_vars

\* The second session has processed 47 landmark-bearing frames and its log
\* holds one calibration_complete entry, with the baselines held.
C7_Witness ==
    /\ sessions = 2
    /\ landmarkFrames = 47
    /\ Len(SelectSeq(ps.sessionLogs, IsCalibrationComplete)) = 1
    /\ Len(SelectSeq(ps.sessionEvents, IsCalibrationCompleteEvent)) = 1
    /\ \E i \in 1..Len(ps.sessionLogs) :
           /\ IsCalibrationComplete(ps.sessionLogs[i])
           /\ ps.sessionLogs[i].baseline_yaw = ps.baselineYaw
           /\ ps.baselineYaw # Zero

\* C8 as stated: when exactly 45 landmark-bearing frames of a session have
\* been processed, each baseline equals the EMA (alpha = 0.1) of that
\* session's raw samples folded from 0, the gaze over the frames where it was
\* computable.
C8_AsStated ==
    (sessions >= 1 /\ landmarkFrames = 45) =>
        /\ ps.baselineYaw = fold.yaw
        /\ ps.baselinePitch = fold.pitch
        /\ ps.baselineGaze = fold.gaze

\* --------------------------------------------- the session specification
\* The first session of an instance with everything the loop does: presence
\* and mesh frames, identity verification, violation frames, stop.  The
\* presence collaborator reports one face through calibration and for all
\* but the first MaxSessionPresenceFrames frames after it; time passes
\* before the first mesh frame.
MaxSessionPresenceFrames == 1

\* Nobody, one face, several faces.
SessionFaceCounts == { 0, 1, 2 }

\* What detectSingleFace can yield: nothing, a rejection, the enrolled face
\* (distance 0) or a stranger (distance 1.0).
Detections ==
    { Detection("none", << >>), Detection("throws", << >>),
      Detection("face", Embedding(<< 3000, 4000 >>)), Detection("face", Embedding(<< 9000, 12000 >>)) }

NextSession ==
    \/ sessions = 0 /\ StartMonitoringCall
    \/ LoadModelsResolved
    \/ ps.isMonitoring /\ StopMonitoringCall
    \/ ProcessVideoExit
    \/ SessionFrameBudget /\ TickEntry
    \/ TickPresence(1)
    \/ /\ landmarkFrames >= MAX_FRAMES
       /\ presenceFrames < MAX_FRAMES + MaxSessionPresenceFrames
       /\ \E faceCount \in SessionFaceCounts \ { 1 } : TickPresence(faceCount)
    \/ TickMesh
    \/ OutsideCalibration /\ \E p \in RestartPoses : ChangePose(p, MaxPoseChanges)
    \/ TickRecognition
    \/ TickNoRecognition
    \/ \E detection \in Detections : RecognitionResolved(detection)
    \/ \E hasBlob \in BOOLEAN : ToBlobCallback(hasBlob)
    \/ landmarkFrames = 0 /\ AdvanceTime(MaxMeshTicks)

SpecSession == InitScene(RestartPoses) /\ [][NextSession]_vars

\* C9: once the 45th calibration frame of a session has been processed, no
\* step of that session - mesh frame (attention and gaze analysis), presence
\* frame, identity verification, violation frame, logging, stopMonitoring -
\* changes baselineYaw, baselinePitch or baselineGaze.
C9_BaselinesFrozen ==
    [][(sessions >= 1 /\ landmarkFrames >= 45 /\ sessions' = sessions) =>
          /\ ps'.baselineYaw = ps.baselineYaw
          /\ ps'.baselinePitch = ps.baselinePitch
          /\ ps'.baselineGaze = ps.baselineGaze
      ]_vars

\* After calibration a distracted frame was analysed, the single face was
\* seen and verified against the enrolled descriptor, and the session was
\* stopped: the baselines are still those the 45 calibration frames left.
C9_Witness ==
    /\ sessions = 1
    /\ ~ps.isMonitoring
    /\ landmarkFrames > 45
    /\ ps.lastFaceCount = 1
    /\ ps.authorizedCounter = 1
    /\ ps.totalViolations = 0
    /\ ps.distractionStartTime # Null
    /\ ps.baselineYaw = fold.yaw
    /\ ps.baselinePitch = fold.pitch
    /\ ps.baselinePitch # Zero

\* --------------------------------------------------- logEvent on its own
MaxEventCalls == 2

TestMessages ==
    { Msg("Sustained distraction detected"), Msg("Wrong person detected"),
      Msg("User looking away"), Msg("Distraction noted"),
      MsgDistance("Wrong person detected (distance: ", Decimal(612, 3)) }

Severities == { "info", "violation", "error" }

\* logEvent(message, severity) is called on the instance.
LogEventCall(message, severity) ==
    /\ ps' = LogEvent(ps, message, severity, now)
    /\ page' = [page EXCEPT
                    !.calls = @ \o LogEventCallbacks(ps, message, severity, now)]
    /\ captures' = CapturesAfter
    /\ UNCHANGED << recognizing, now, loading, chains, sceneVars, caught, exported, component, dropped, timers,
                    sessions, scriptPos, presenceFrames, meshHistory, awaiting,
                    verifications, run >>

NextLogEvent ==
    \/ /\ Len(ps.sessionEvents) < MaxEventCalls
       /\ \E message \in TestMessages, severity \in Severities :
              LogEventCall(message, severity)
    \/ \E hasBlob \in BOOLEAN : ToBlobCallback(hasBlob)
    \/ AdvanceTime(MaxTicks)

SpecLogEvent == Init /\ [][NextLogEvent]_vars

\* The texts among the test messages that contain 'distraction' or 'looking
\* away' (the match is case-sensitive).
AttentionTexts == { "Sustained distraction detected", "User looking away" }

\* C10: logEvent with severity 'violation' adds exactly 1 to totalViolations,
\* and exactly 1 to attentionViolations iff the message contains
\* 'distraction' or 'looking away'; any other severity changes neither.
C10_ViolationCounters ==
    [][\A message \in TestMessages, severity \in Severities :
          LogEventCall(message, severity) =>
              IF severity = "violation"
              THEN /\ ps'.totalViolations = ps.totalViolations + 1
                   /\ ps'.attentionViolations =
                          ps.attentionViolations
                          + (IF message.text \in AttentionTexts THEN 1 ELSE 0)
              ELSE /\ ps'.totalViolations = ps.totalViolations
                   /\ ps'.attentionViolations = ps.attentionViolations
      ]_vars

\* 'Sustained distraction detected' and then 'Wrong person detected' were
\* logged as violations: two violations, one of them an attention violation.
C10_Witness ==
    /\ Len(ps.sessionEvents) = 2
    /\ IsEvent(ps.sessionEvents[1], "Sustained distraction detected", "violation")
    /\ IsEvent(ps.sessionEvents[2], "Wrong person detected", "violation")
    /\ ps.totalViolations = 2
    /\ ps.attentionViolations = 1

\* ------------------------------------------- the lifecycle specification
\* startMonitoring and stopMonitoring called in any order on one instance,
\* with the loop followed step by step: a start while a loop is still alive
\* (two starts in a row, or a start before a stopped loop has reached its
\* next tick) leaves more than one loop running.
MaxLoopTicks == 2
MaxLifecycleTime == 1000

\* One face, several faces.
LifecycleFaceCounts == { 1, 2 }

\* The ticks entered so far are within the budget.
TickBudget == presenceFrames + awaiting.presence < MaxLoopTicks

NextLifecycle ==
    \/ sessions < 1 + MaxRestarts /\ StartMonitoringCall
    \/ LoadModelsResolved
    \/ ps.isMonitoring /\ StopMonitoringCall
    \/ ProcessVideoExit
    \/ TickBudget /\ TickEntry
    \/ \E faceCount \in LifecycleFaceCounts : TickPresence(faceCount)
    \/ TickMesh
    \/ TickRecognition
    \/ TickNoRecognition
    \/ \E detection \in Detections : RecognitionResolved(detection)
    \/ \E hasBlob \in BOOLEAN : ToBlobCallback(hasBlob)
    \/ ps.isMonitoring /\ \E ms \in GateWaits : Elapse(ms, MaxLifecycleTime)

SpecLifecycle == InitScene({ "turned" }) /\ [][NextLifecycle]_vars

\* The step is a startMonitoring call.
StartsSession == sessions' = sessions + 1

\* C11 as stated: immediately after every startMonitoring call
\* totalViolations = 0 and attentionViolations = 0, whatever an earlier
\* session on the instance recorded, and within a session neither counter
\* decreases.
C11_AsStated ==
    [][IF StartsSession
       THEN ps'.totalViolations = 0 /\ ps'.attentionViolations = 0
       ELSE /\ ps'.totalViolations >= ps.totalViolations
            /\ ps'.attentionViolations >= ps.attentionViolations
      ]_vars

\* ------------------------------------------------ frame capture on its own
\* logEvent is called with violations and other events, a second or more
\* apart, on a new instance.
MaxCaptureEvents == 3
MaxCaptureTime == 5000
CaptureStep == 1000

CaptureMessages == { Msg("No face detected"), Msg("Sustained distraction detected") }

CaptureSeverities == { "info", "violation" }

NextCapture ==
    \/ /\ Len(ps.sessionEvents) < MaxCaptureEvents
       /\ \E message \in CaptureMessages, severity \in CaptureSeverities :
              LogEventCall(message, severity)
    \/ \E hasBlob \in BOOLEAN : ToBlobCallback(hasBlob)
    \/ Elapse(CaptureStep, MaxCaptureTime)

SpecCapture == Init /\ [][NextCapture]_vars

IsFrameSaved(entry) == entry.type = "frame_saved"

IsViolation(e) == e.type = "violation"

\* C12: the capture request of a violation is accepted iff at least 4000 ms
\* have passed since the last accepted request (the first one always is); an
\* accepted request queues one capture and moves the throttle timestamp, a
\* dropped one queues nothing, saves no frame, appends no frame_saved entry
\* and leaves the timestamp alone.  Hence accepted captures are >= 4000 ms
\* apart, and two violations yield one request when less than 4000 ms apart
\* (1000 ms) and two otherwise (5000 ms).
C12_CaptureThrottle ==
    [][/\ \A message \in CaptureMessages, severity \in CaptureSeverities :
              LogEventCall(message, severity) =>
                  LET elapsed == captures = << >> \/ now - captures[Len(captures)] >= 4000
                  IN  IF severity = "violation" /\ elapsed
                      THEN /\ ps'.toBlobQueue = Append(ps.toBlobQueue, message)
                           /\ ps'.lastViolationFrameSave = now
                           /\ captures' = Append(captures, now)
                      ELSE /\ ps'.toBlobQueue = ps.toBlobQueue
                           /\ ps'.lastViolationFrameSave = ps.lastViolationFrameSave
                           /\ ps'.violationFrames = ps.violationFrames
                           /\ Len(SelectSeq(NewLogs, IsFrameSaved)) = 0
                           /\ captures' = captures
       /\ \A i \in 1..(Len(captures') - 1) : captures'[i + 1] - captures'[i] >= 4000
       /\ LET violations == SelectSeq(ps'.sessionEvents, IsViolation)
          IN  Len(violations) = 2 =>
                  Len(captures') =
                      IF violations[2].timestamp - violations[1].timestamp < 4000
                      THEN 1 ELSE 2
      ]_vars

\* Three violations 1000 ms and 3000 ms apart: the first and the third were
\* captured, exactly 4000 ms apart, and the second was dropped.
C12_Witness ==
    /\ ps.totalViolations = 3
    /\ Len(captures) = 2
    /\ captures[2] - captures[1] = 4000
    /\ ps.sessionEvents[2].timestamp - ps.sessionEvents[1].timestamp = 1000
    /\ ps.lastViolationFrameSave = captures[2]
    /\ Len(ps.violationFrames) = 2
    /\ Len(SelectSeq(ps.sessionLogs, IsFrameSaved)) = 2

\* -------------------------------------------- the identity specification
\* The first session of an instance, up to its stop and the end of its
\* loop, with no landmarks from the mesh collaborator: ticks step by step,
\* presence results, identity verification on its schedule.  The page may
\* hold no enrolled descriptors (absent, unparsable, empty) or two of them.
MaxIdentityTicks == 4
MaxIdentityTime == 21000

\* Nobody, one face, several faces.
IdentityFaceCounts == { 0, 1, 2 }

\* What detectSingleFace can yield: nothing, a rejection, a face at distance
\* 0.5000 of the nearest enrolled descriptor, a face at distance 0.5001.
IdentityDetections ==
    { Detection("none", << >>), Detection("throws", << >>),
      Detection("face", Embedding(<< 5000, 0 >>)), Detection("face", Embedding(<< 5001, 0 >>)) }

IdentityTickBudget == presenceFrames + awaiting.presence < MaxIdentityTicks

NextIdentity ==
    \/ sessions = 0 /\ StartMonitoringCall
    \/ LoadModelsResolved
    \/ ps.isMonitoring /\ StopMonitoringCall
    \/ ProcessVideoExit
    \/ IdentityTickBudget /\ TickEntry
    \/ \E faceCount \in IdentityFaceCounts : TickPresence(faceCount)
    \/ TickMesh
    \/ TickRecognition
    \/ TickNoRecognition
    \/ \E detection \in IdentityDetections : RecognitionResolved(detection)
    \/ ps.isMonitoring /\ \E ms \in GateWaits : Elapse(ms, MaxIdentityTime)

SpecIdentity ==
    /\ \E stored \in StoredValues : Constructed(stored, "no_face")
    /\ [][NextIdentity]_vars

IsIdentityEvent(e) ==
    \/ e.message.text = "Wrong person detected (distance: " /\ e.type = "violation"
    \/ e.message.text = "Authorized person verified (distance: " /\ e.type = "info"

IsFaceRecognition(entry) == entry.type = "face_recognition"

\* The embedding is farther than 0.50 from every enrolled one (compared on
\* the squares).
BeyondThreshold(descriptor) ==
    \A i \in 1..Len(ps.enrolledDescriptors.items) :
        Gt(SumOfSquares(Zero, ps.enrolledDescriptors.items[i], descriptor),
           Decimal(25, 2))

\* The direction of an embedding cycle.
Direction(descriptor) == IF BeyondThreshold(descriptor) THEN "unauthorized" ELSE "authorized"

\* The cycles of the run r are at least three and the last three go the
\* direction dir.
ThreeInARow(r, dir) ==
    /\ Len(r) >= 3
    /\ \A i \in (Len(r) - 2)..Len(r) : Direction(r[i]) = dir

\* C13: a verification cycle that obtains an embedding counts as Unauthorized
\* iff the smallest distance to an enrolled embedding is > 0.50 (exactly 0.50
\* is Authorized); the confirmed person state changes, with its 'Wrong person
\* detected' violation or 'Authorized person verified' info event and its
\* face_recognition entry, only on a cycle that is at least the third in a row
\* in its direction, the face count having been exactly 1 on every presence
\* frame since the first of them - and no other step emits those events or
\* entries.
C13_IdentityConfirmation ==
    [][/\ \A detection \in IdentityDetections :
              (/\ detection.kind = "face"
               /\ recognizing' = recognizing - 1
               /\ run' = RunAfterDetection(detection)
               /\ RecognitionResolved(detection)) =>
                  IF BeyondThreshold(detection.descriptor)
                  THEN /\ ps'.unauthorizedCounter = ps.unauthorizedCounter + 1
                       /\ ps'.authorizedCounter = 0
                  ELSE /\ ps'.authorizedCounter = ps.authorizedCounter + 1
                       /\ ps'.unauthorizedCounter = 0
       /\ sessions' = sessions =>
              LET changed == ps'.lastPersonState # ps.lastPersonState
                  events == SelectSeq(NewEvents, IsIdentityEvent)
                  entries == SelectSeq(NewLogs, IsFaceRecognition)
              IN  /\ changed <=> /\ recognizing' = recognizing - 1
                                 /\ \E dir \in { "unauthorized", "authorized" } :
                                        /\ ThreeInARow(run', dir)
                                        /\ ps.lastPersonState # dir
                  /\ changed => /\ ThreeInARow(run', ps'.lastPersonState)
                                /\ Len(events) = 1
                                /\ events[1].type =
                                       IF ps'.lastPersonState = "unauthorized"
                                       THEN "violation" ELSE "info"
                                /\ events[1].message.distance \in
                                       { << Decimal(5, 1) >>,
                                         << ToFloat32(Decimal(5001, 4)) >> }
                                /\ Len(entries) = 1
                                /\ entries[1].result = ps'.lastPersonState
                  /\ ~changed => Len(events) = 0 /\ Len(entries) = 0
      ]_vars

\* Three cycles in a row found the face at distance 0.5001 while one face was
\* present: the third one confirmed Unauthorized and raised the violation.
C13_Witness ==
    /\ ps.lastPersonState = "unauthorized"
    /\ ps.unauthorizedCounter = 3
    /\ ps.lastFaceCount = 1
    /\ Len(run) = 3
    /\ Len(verifications) = 3
    /\ ps.totalViolations >= 1
    /\ Len(SelectSeq(ps.sessionLogs, IsFaceRecognition)) = 1

\* C14: a verification cycle without a distance - the previous face count is
\* not exactly 1 (the collaborator is then not invoked), or the collaborator
\* returns no detection or throws - leaves both identity counters at 0, emits
\* no event, appends no log entry and leaves the confirmed person state as it
\* was.
C14_NoDistanceCycle ==
    [][/\ (TickRecognition /\ ps.lastFaceCount # 1) =>
              /\ recognizing' = recognizing
              /\ ps'.unauthorizedCounter = 0
              /\ ps'.authorizedCounter = 0
              /\ Len(NewEvents) = 0
              /\ Len(NewLogs) = 0
              /\ ps'.lastPersonState = ps.lastPersonState
       /\ (TickRecognition /\ ps.lastFaceCount = 1) => recognizing' = recognizing + 1
       /\ \A detection \in IdentityDetections :
              (detection.kind # "face" /\ RecognitionResolved(detection)) =>
                  /\ ps'.unauthorizedCounter = 0
                  /\ ps'.authorizedCounter = 0
                  /\ Len(NewEvents) = 0
                  /\ Len(NewLogs) = 0
                  /\ ps'.lastPersonState = ps.lastPersonState
      ]_vars

\* After two Authorized cycles a third cycle came back without a detection:
\* the counters are 0 again and nothing is confirmed.
C14_Witness ==
    /\ Len(verifications) = 3
    /\ recognizing = 0
    /\ run = << >>
    /\ ps.lastFaceCount = 1
    /\ ps.authorizedCounter = 0
    /\ ps.unauthorizedCounter = 0
    /\ ps.lastPersonState = "unknown"
    /\ Len(SelectSeq(ps.sessionEvents, IsIdentityEvent)) = 0

\* No enrolled embeddings are available to the instance.
NoneEnrolled == ps.enrolledDescriptors.isNull \/ Len(ps.enrolledDescriptors.items) = 0

\* C15: with no enrolled embeddings (key absent, unparsable value, empty
\* array) the identity collaborator is never invoked, the confirmed person
\* state stays Unknown and no identity event or face_recognition entry is
\* ever emitted.
C15_InertWithoutEnrollment ==
    NoneEnrolled =>
        /\ recognizing = 0
        /\ verifications = << >>
        /\ run = << >>
        /\ ~ps.faceRecognitionStarted
        /\ ps.lastPersonState = "unknown"
        /\ ps.unauthorizedCounter = 0
        /\ ps.authorizedCounter = 0
        /\ Len(SelectSeq(ps.sessionEvents, IsIdentityEvent)) = 0
        /\ Len(SelectSeq(ps.sessionLogs, IsFaceRecognition)) = 0

\* With an empty array enrolled, ticks have gone by with one face present
\* and the initial delay over.
C15_Witness ==
    /\ ~ps.enrolledDescriptors.isNull
    /\ NoneEnrolled
    /\ ps.isMonitoring
    /\ presenceFrames = MaxIdentityTicks
    /\ ps.lastFaceCount = 1
    /\ now - ps.sessionStartTime >= INITIAL_DELAY_MS
    /\ AtEntry = 1

\* C16: the first verification of a session starts no earlier than 1000 ms
\* after the session start, consecutive verifications of a session start at
\* least 10000 ms apart, and a tick starts at most one.
C16_VerificationSchedule ==
    [][/\ TickRecognition =>
              /\ ~NoneEnrolled
              /\ IF verifications = << >>
                 THEN now - ps.sessionStartTime >= 1000
                 ELSE now - verifications[Len(verifications)] >= 10000
              /\ verifications' = Append(verifications, now)
       /\ ~TickRecognition => verifications' = verifications \/ sessions' # sessions
       /\ \A i \in 1..Len(verifications') :
              verifications'[i] - ps'.sessionStartTime >= 1000
       /\ \A i \in 1..(Len(verifications') - 1) :
              verifications'[i + 1] - verifications'[i] >= 10000
      ]_vars

\* Three verifications were started, 1000 ms after the session start and
\* then 10000 ms apart, and one more tick found the gate closed.
C16_Witness ==
    /\ Len(verifications) = 3
    /\ verifications[1] - ps.sessionStartTime = 1000
    /\ verifications[2] - verifications[1] = 10000
    /\ verifications[3] - verifications[2] = 10000
    /\ presenceFrames = MaxIdentityTicks

\* The instance is stopped before and after the step: no start in between.
StaysStopped == ~ps.isMonitoring /\ ~ps'.isMonitoring

\* The step delivers a presence result, a mesh result, enters a tick.
PresenceCallback == awaiting'.presence = awaiting.presence - 1

MeshCallback == awaiting'.mesh = awaiting.mesh - 1 /\ awaiting'.gate = awaiting.gate + 1

EntersTick == AtEntry' = AtEntry - 1 /\ recognizing' = recognizing

\* C17 as stated: after stopMonitoring, with no later start, a presence or
\* mesh result that still arrives changes nothing, at most one further
\* presence result and one further mesh result are still to be delivered, and
\* a tick that is entered returns without dispatching or rescheduling.
C17_AsStated ==
    [][StaysStopped =>
          /\ awaiting.presence <= 1
          /\ awaiting.presence + awaiting.mesh <= 1
          /\ (PresenceCallback \/ MeshCallback) => ps' = ps
          /\ EntersTick => chains' = chains - 1 /\ awaiting' = awaiting
          /\ awaiting'.presence <= awaiting.presence
      ]_vars

\* C18 as stated: from the return of stopMonitoring to the next
\* startMonitoring the four confirmation counters, the three confirmed
\* states, the two violation counters and the session log do not change.
C18_AsStated ==
    [][(sessions >= 1 /\ StaysStopped) =>
          /\ ps'.distractionCounter = ps.distractionCounter
          /\ ps'.focusCounter = ps.focusCounter
          /\ ps'.unauthorizedCounter = ps.unauthorizedCounter
          /\ ps'.authorizedCounter = ps.authorizedCounter
          /\ ps'.lastFaceCount = ps.lastFaceCount
          /\ ps'.lastAttentionState = ps.lastAttentionState
          /\ ps'.lastPersonState = ps.lastPersonState
          /\ ps'.totalViolations = ps.totalViolations
          /\ ps'.attentionViolations = ps.attentionViolations
          /\ ps'.sessionLogs = ps.sessionLogs
          /\ ps'.sessionEvents = ps.sessionEvents
      ]_vars

\* C19 as stated: immediately after startMonitoring the baseline is (0,0,0),
\* the three histories are empty, the four confirmation counters are 0, no
\* distraction episode is open, the confirmed attention and person states are
\* Unknown, the previous face count is 0, the frame-capture throttle is
\* cleared and the log holds only the new session's start entries.
C19_AsStated ==
    [][StartsSession =>
          /\ ps'.baselineYaw = Zero /\ ps'.baselinePitch = Zero /\ ps'.baselineGaze = Zero
          /\ ps'.yawHistory = << >> /\ ps'.pitchHistory = << >> /\ ps'.gazeHistory = << >>
          /\ ps'.distractionCounter = 0 /\ ps'.focusCounter = 0
          /\ ps'.unauthorizedCounter = 0 /\ ps'.authorizedCounter = 0
          /\ ps'.distractionStartTime = Null
          /\ ps'.lastAttentionState = "unknown" /\ ps'.lastPersonState = "unknown"
          /\ ps'.lastFaceCount = 0
          /\ ps'.lastViolationFrameSave = 0
          /\ Len(ps'.sessionLogs) = 2
          /\ ps'.sessionLogs[1].type = "event"
          /\ ps'.sessionLogs[2].type = "session_start"
          /\ \A i \in 1..2 : ps'.sessionLogs[i].session_id = now
      ]_vars

\* C20: between two startMonitoring calls the session log only grows at its
\* end: every step that is not a start leaves the log it found as a prefix of
\* the log it leaves, whichever component appended.
C20_AppendOnly ==
    [][~StartsSession =>
          /\ Len(ps'.sessionLogs) >= Len(ps.sessionLogs)
          /\ SubSeq(ps'.sessionLogs, 1, Len(ps.sessionLogs)) = ps.sessionLogs
      ]_vars

\* The log of a restarted session holds entries of the presence monitor, the
\* frame capture and stopMonitoring after its start entries, in the order
\* they arrived.
C20_Witness ==
    /\ sessions = 2
    /\ Len(ps.sessionLogs) >= 6
    /\ ps.sessionLogs[2].type = "session_start"
    /\ \E i, j, k \in 3..Len(ps.sessionLogs) :
           /\ i < j /\ j < k
           /\ ps.sessionLogs[i].type = "face_count_change"
           /\ ps.sessionLogs[j].type = "session_end"
           /\ ps.sessionLogs[k].type = "frame_saved"

\* ------------------------------------------------ the session log on its own
\* Everything that appends to the session log, on one instance that is
\* started, stopped and started again (once its models are loaded): the tick handlers, stopMonitoring, the
\* frame-capture callback, and addToSessionLog called directly with entries
\* that carry a session id of their own, no timestamp, or an empty one.  The
\* presence collaborator sees two faces; time passes while the instance is
\* not monitoring, less than the initial delay of the identity verification.
MaxLogRestarts == 1
MaxLogTicks == 1
MaxNotes == 1
LogStep == 500
MaxLogTime == 500

\* A session id no session of the instance has.
ForeignSession == 7

LogNotes ==
    { [type |-> "note", session_id |-> ForeignSession],
      [type |-> "note", session_id |-> ForeignSession, timestamp |-> 0],
      [type |-> "note", timestamp |-> 5] }

IsNote(entry) == entry.type = "note"

\* addToSessionLog(logEntry) is called on the instance.
AddToSessionLogCall(logEntry) ==
    /\ ps' = AddToSessionLog(ps, logEntry, now)
    /\ UNCHANGED << recognizing, now, loading, chains, sceneVars, host, timers, sessions, scriptPos,
                    presenceFrames, meshHistory, awaiting, audit >>

LogTickBudget == presenceFrames + awaiting.presence < MaxLogTicks

NextLog ==
    \/ sessions < 1 + MaxLogRestarts /\ loading = 0 /\ StartMonitoringCall
    \/ LoadModelsResolved
    \/ ps.isMonitoring /\ StopMonitoringCall
    \/ ProcessVideoExit
    \/ LogTickBudget /\ TickEntry
    \/ TickPresence(2)
    \/ TickMesh
    \/ TickNoRecognition
    \/ \E hasBlob \in BOOLEAN : ToBlobCallback(hasBlob)
    \/ /\ Len(SelectSeq(ps.sessionLogs, IsNote)) < MaxNotes
       /\ \E logEntry \in LogNotes : AddToSessionLogCall(logEntry)
    \/ ~ps.isMonitoring /\ Elapse(LogStep, MaxLogTime)

\* The page holds no descriptors: the constructor logs an event, before any
\* session.
SpecLog == Constructed(Stored("absent", << >>), "turned") /\ [][NextLog]_vars

\* C21: in every reachable state every entry of the session log carries the
\* instance's current session start time as its session_id, whatever
\* session_id the caller supplied, and a non-empty timestamp: the caller's
\* when it gave a non-empty one, else the time of the append.  This holds for
\* the entries of the tick handlers, of stopMonitoring, of the frame-capture
\* callback (also when it arrives in a later session) and of direct calls.
C21_StampedEntries ==
    \A i \in 1..Len(ps.sessionLogs) :
        LET entry == ps.sessionLogs[i]
        IN  /\ entry.session_id = ps.sessionStartTime
            /\ entry.timestamp # 0
            /\ entry.timestamp # Null
            /\ entry.timestamp <= now
            /\ IsNote(entry) => entry.timestamp = 5 \/ entry.timestamp >= Epoch

\* In a second session, started later than the first, a tick saw two faces,
\* the session was stopped and the frame capture came back: the log holds
\* the presence entry, the session_end entry, the frame_saved entry and a
\* directly added entry that came with a foreign session id and no timestamp.
C21_Witness ==
    /\ sessions = 2
    /\ ps.sessionStartTime > Epoch
    /\ ~ps.isMonitoring
    /\ \E i, j, k, n \in 1..Len(ps.sessionLogs) :
           /\ ps.sessionLogs[i].type = "face_count_change"
           /\ ps.sessionLogs[j].type = "session_end"
           /\ ps.sessionLogs[k].type = "frame_saved"
           /\ IsNote(ps.sessionLogs[n])
           /\ ps.sessionLogs[n].timestamp >= Epoch

\* ----------------------------------------------- the faults specification
\* The first session of an instance in which any step of a tick can fail:
\* drawing the frame, the presence dispatch, the mesh dispatch, the identity
\* detection; and in which loading the recognition models can fail.  One
\* face is in front of the camera, facing it; the session is followed for
\* the 45 ticks of calibration and MaxFaultFrames ticks more, up to the first
\* verification, and the collaborators do not fail while calibration is
\* under way.
MaxFaultFrames == 2
MaxFaultTime == 1000

\* Mutant: an error thrown in a tick ends the loop.
ErrorEndsLoop(loops) == loops - 1

\* The live loops after a tick that threw: the error is caught inside the
\* tick, which goes on to request the next one.
ErrorCaught(loops) == loops

\* drawImage throws in a tick of a live loop: the tick is over.
TickDrawFails ==
    /\ AtEntry > 0
    /\ ps.isMonitoring
    /\ chains' = ErrorCaught(chains)
    /\ caught' = caught \cup { "draw" }
    /\ UNCHANGED << ps, now, loading, recognizing, sceneVars, page, exported, component, dropped, timers, sessions,
                    scriptPos, presenceFrames, meshHistory, awaiting, audit >>

\* loadFaceApiModels resolves and drawImage throws in the processVideo() call
\* startMonitoring goes on to make: the error is caught inside that first
\* tick, which requests the next one.
LoadModelsResolvedDrawFails ==
    /\ loading > 0
    /\ ps.isMonitoring
    /\ loading' = loading - 1
    /\ chains' = ErrorCaught(chains + 1)
    /\ caught' = caught \cup { "draw" }
    /\ UNCHANGED << ps, now, recognizing, sceneVars, page, exported, component, dropped, timers, sessions,
                    scriptPos, presenceFrames, meshHistory, awaiting, audit >>

\* faceDetection.send rejects: the tick is over, without a mesh dispatch and
\* without reaching the recognition gate.
TickPresenceFails ==
    /\ awaiting.presence > 0
    /\ awaiting' = [awaiting EXCEPT !.presence = @ - 1]
    /\ chains' = ErrorCaught(chains)
    /\ caught' = caught \cup { "presence" }
    /\ UNCHANGED << ps, now, loading, recognizing, sceneVars, page, exported, component, dropped, timers, sessions,
                    scriptPos, presenceFrames, meshHistory, audit >>

\* faceMesh.send rejects: the tick is over, without reaching the recognition
\* gate.
TickMeshFails ==
    /\ awaiting.mesh > 0
    /\ awaiting' = [awaiting EXCEPT !.mesh = @ - 1]
    /\ chains' = ErrorCaught(chains)
    /\ caught' = caught \cup { "mesh" }
    /\ UNCHANGED << ps, now, loading, recognizing, sceneVars, page, exported, component, dropped, timers, sessions,
                    scriptPos, presenceFrames, meshHistory, audit >>

\* What detectSingleFace can yield: a rejection or the enrolled face.
FaultDetections == { Detection("throws", << >>), Detection("face", Embedding(<< 3000, 4000 >>)) }

FaultTickBudget == presenceFrames + awaiting.presence < MAX_FRAMES + MaxFaultFrames

NextFaults ==
    \/ sessions = 0 /\ StartMonitoringCall
    \/ LoadModelsResolved
    \/ LoadModelsResolvedDrawFails
    \/ LoadModelsRejected
    \/ ps.isMonitoring /\ StopMonitoringCall
    \/ ProcessVideoExit
    \/ FaultTickBudget /\ TickEntry
    \/ OutsideCalibration /\ TickDrawFails
    \/ TickPresence(1)
    \/ OutsideCalibration /\ TickPresenceFails
    \/ TickMesh
    \/ OutsideCalibration /\ TickMeshFails
    \/ TickRecognition
    \/ TickNoRecognition
    \/ \E detection \in FaultDetections : RecognitionResolved(detection)
    \/ ps.isMonitoring /\ \E ms \in GateWaits : Elapse(ms, MaxFaultTime)

SpecFaults == Init /\ [][NextFaults]_vars

\* The step is a tick ended by an error at the given site.
Catches(site) == site \notin caught /\ site \in caught'

\* The step resolves the identity detection of a tick with a rejection.
IdentityFails == RecognitionResolved(Detection("throws", << >>))

\* C22: an error thrown in a tick - by the frame draw, the presence dispatch,
\* the mesh dispatch or the identity verification - while the instance is
\* monitoring is caught inside the tick: the loop stays alive and is back at
\* the entry of its next tick; a loop ends only at a tick entry that finds the
\* monitoring flag off, hence only after stopMonitoring.
C22_ErrorsKeepLoop ==
    [][/\ \A site \in { "draw", "presence", "mesh" } :
              Catches(site) =>
                  /\ chains' = IF loading' < loading THEN chains + 1 ELSE chains
                  /\ recognizing' = recognizing
                  /\ AtEntry' = IF site = "draw" /\ loading' = loading
                                THEN AtEntry ELSE AtEntry + 1
                  /\ AtEntry' > 0
       /\ (TickDrawFails \/ TickPresenceFails \/ TickMeshFails) => chains' = chains
       /\ LoadModelsResolvedDrawFails => chains' = chains + 1
       /\ IdentityFails =>
              /\ chains' = chains
              /\ AtEntry' = AtEntry + 1
       /\ chains' < chains =>
              /\ ~ps.isMonitoring
              /\ Len(timers) > 0
              /\ chains' = chains - 1
              /\ UNCHANGED << ps, awaiting, recognizing >>
      ]_vars

\* The draw, the presence dispatch, the mesh dispatch and the identity
\* detection have each failed in some tick, and the one loop is still alive,
\* monitoring, and has processed frames since.
C22_Witness ==
    /\ caught = { "draw", "presence", "mesh" }
    /\ ps.faceRecognitionStarted
    /\ recognizing = 0
    /\ ps.isMonitoring
    /\ chains = 1
    /\ AtEntry = 1
    /\ landmarkFrames > MAX_FRAMES

\* C23 as stated: in the tick where the presence dispatch, the mesh dispatch
\* or the identity detection fails, nothing is classified and no event is
\* logged, and after the tick the confirmation counters fed by the failed
\* collaborator are 0: distractionCounter and focusCounter after a mesh
\* failure, unauthorizedCounter and authorizedCounter after an identity
\* failure.
C23_AsStated ==
    [][/\ TickPresenceFails =>
              /\ Len(NewEvents) = 0
              /\ ps'.lastFaceCount = ps.lastFaceCount
       /\ TickMeshFails =>
              /\ Len(NewEvents) = 0
              /\ ps'.lastAttentionState = ps.lastAttentionState
              /\ ps'.yawHistory = ps.yawHistory
              /\ ps'.distractionCounter = 0
              /\ ps'.focusCounter = 0
       /\ IdentityFails =>
              /\ Len(NewEvents) = 0
              /\ ps'.lastPersonState = ps.lastPersonState
              /\ ps'.unauthorizedCounter = 0
              /\ ps'.authorizedCounter = 0
      ]_vars

\* C24 as stated: when loading the recognition models fails at session
\* start, the failure is caught and not counted as a violation, the promise
\* startMonitoring returned does not reject, the tick loop is started all the
\* same, and the instance is not left monitoring without a loop.
C24_AsStated ==
    [][LoadModelsRejected =>
          /\ ps'.totalViolations = ps.totalViolations
          /\ ps'.attentionViolations = ps.attentionViolations
          /\ page'.rejected = page.rejected
          /\ chains' = chains + 1
          /\ ps'.isMonitoring => chains' > 0
      ]_vars

\* ------------------------------------------ the construction specification
\* The page calls the constructor with any arguments - a stream and a video
\* element that are there or not, two callbacks that are functions or not -
\* and with anything stored under 'enrolledDescriptors'; an instance that was
\* constructed then runs the first ticks of its first session, up to the
\* first verification.
MaxConstructTicks == 2
MaxConstructTime == 1000

\* What typeof yields for a callback argument.
CallbackTypes == { "undefined", "object", "function" }

AllArgs ==
    { Args(stream, video, onLogEvent, onViolationUpdate) :
          stream \in { "null", "object" }, video \in { "null", "object" },
          onLogEvent \in CallbackTypes, onViolationUpdate \in CallbackTypes }

\* The page is about to call the constructor.
Unconstructed(args, stored) ==
    /\ ps = NoInstance
    /\ page = PageBefore(args, stored)
    /\ component = Unmounted
    /\ NothingStarted("no_face")

\* The constructor has returned an instance.
HasInstance == page.called /\ page.thrown = "none"

\* new ProctoringSystem(...) is called.
NewCall ==
    /\ ~page.called
    /\ ps' = Construct(page.args, page.stored, now).instance
    /\ page' = PageAfter(page, now)
    /\ UNCHANGED << recognizing, now, loading, chains, sceneVars, caught, exported, component, dropped, timers, sessions,
                    scriptPos, presenceFrames, meshHistory, awaiting, audit >>

ConstructTickBudget == presenceFrames + awaiting.presence < MaxConstructTicks

NextConstruct ==
    \/ NewCall
    \/ HasInstance /\ sessions = 0 /\ StartMonitoringCall
    \/ LoadModelsResolved
    \/ HasInstance /\ ps.isMonitoring /\ StopMonitoringCall
    \/ ProcessVideoExit
    \/ ConstructTickBudget /\ TickEntry
    \/ TickPresence(1)
    \/ TickMesh
    \/ TickRecognition
    \/ TickNoRecognition
    \/ \E detection \in IdentityDetections : RecognitionResolved(detection)
    \/ HasInstance /\ ps.isMonitoring /\ \E ms \in GateWaits : Elapse(ms, MaxConstructTime)

SpecConstruct ==
    /\ \E args \in AllArgs, stored \in StoredValues : Unconstructed(args, stored)
    /\ [][NextConstruct]_vars

\* The first check of validateInputs that the arguments fail.
FirstInvalid(args) ==
    IF args.stream # "object" THEN "Stream is required"
    ELSE IF args.video # "object" THEN "Video element is required"
    ELSE IF args.onLogEvent # "function"
    THEN "onLogEvent callback is required and must be a function"
    ELSE "onViolationUpdate callback is required and must be a function"

\* C25: a constructor call with a missing stream, a missing video element, or
\* an onLogEvent / onViolationUpdate that is not a function throws at once -
\* no instance, no read of the persisted descriptors, no event logged, no
\* callback invoked, no collaborator set up; with all four valid it returns an
\* instance whose monitoring flag is off until startMonitoring is called.
C25_ConstructorValidation ==
    /\ ~page.called => ps = NoInstance /\ page.calls = << >> /\ ~page.storageRead
    /\ page.called =>
           IF page.args = ValidArgs
           THEN /\ page.thrown = "none"
                /\ ps # NoInstance
                /\ page.storageRead
                /\ page.mediaPipe
                /\ sessions = 0 => ~ps.isMonitoring
           ELSE /\ page.thrown = FirstInvalid(page.args)
                /\ ps = NoInstance
                /\ ~page.storageRead
                /\ page.calls = << >>
                /\ ~page.mediaPipe
                /\ sessions = 0 /\ loading = 0 /\ chains = 0

\* The constructor was called with everything valid but onViolationUpdate,
\* on a page with no descriptors stored: it threw, and the 'No enrolled face
\* found' event a successful construction logs was not logged.
C25_Witness ==
    /\ page.called
    /\ page.args = Args("object", "object", "function", "undefined")
    /\ page.stored.kind = "absent"
    /\ page.thrown = "onViolationUpdate callback is required and must be a function"
    /\ ps = NoInstance
    /\ page.calls = << >>

IsErrorCall(call) == call.callback = "onLogEvent" /\ call.type = "error"

IsError(e) == e.type = "error"

\* C26 as stated: when the value stored under 'enrolledDescriptors' exists
\* but is malformed, the constructor still returns an instance, the failure
\* is logged as an error event (the event callback is invoked with severity
\* 'error', and until a session starts the event is on the instance's event
\* list), and the identity verifier is inert.
C26_AsStated ==
    (page.called /\ page.args = ValidArgs /\ page.stored.kind = "malformed") =>
        /\ HasInstance
        /\ Len(SelectSeq(page.calls, IsErrorCall)) = 1
        /\ sessions = 0 => Len(SelectSeq(ps.sessionEvents, IsError)) = 1
        /\ NoneEnrolled
        /\ verifications = << >>
        /\ recognizing = 0

\* ------------------------------------------- what one logEvent call emits
IsEventEntry(entry) == entry.type = "event"

\* The callback invocations of the step.
NewCalls == SubSeq(page'.calls, Len(page.calls) + 1, Len(page'.calls))

IsOnLogEvent(call) == call.callback = "onLogEvent"

IsOnViolationUpdate(call) == call.callback = "onViolationUpdate"

\* C27: every logEvent(message, severity) call appends exactly one display
\* event and exactly one structured 'event' log entry and invokes onLogEvent
\* exactly once, with {timestamp, message, type}; it invokes
\* onViolationUpdate exactly once, before onLogEvent and with the counters
\* as the call has just incremented them, iff the severity is 'violation'.
C27_LogEventEmits ==
    [][\A message \in TestMessages, severity \in Severities :
           LogEventCall(message, severity) =>
               LET event == [timestamp |-> now, message |-> message,
                             type |-> severity]
               IN  /\ ps'.sessionEvents = Append(ps.sessionEvents, event)
                   /\ Len(ps'.sessionLogs) = Len(ps.sessionLogs) + 1
                   /\ SubSeq(ps'.sessionLogs, 1, Len(ps.sessionLogs)) = ps.sessionLogs
                   /\ LET entry == ps'.sessionLogs[Len(ps'.sessionLogs)]
                      IN  /\ entry.type = "event"
                          /\ entry.event_type = severity
                          /\ entry.message = message
                   /\ SelectSeq(NewCalls, IsOnLogEvent) =
                          << [callback |-> "onLogEvent", timestamp |-> now,
                              message |-> message, type |-> severity] >>
                   /\ SelectSeq(NewCalls, IsOnViolationUpdate) =
                          IF severity = "violation"
                          THEN << [callback |-> "onViolationUpdate",
                                   total |-> ps'.totalViolations,
                                   attention |-> ps'.attentionViolations] >>
                          ELSE << >>
                   /\ severity = "violation" =>
                          /\ ps'.totalViolations = ps.totalViolations + 1
                          /\ IsOnViolationUpdate(NewCalls[1])
                   /\ severity # "violation" =>
                          /\ ps'.totalViolations = ps.totalViolations
                          /\ ps'.attentionViolations = ps.attentionViolations
      ]_vars

\* Two logEvent calls were made after a construction that logged nothing,
\* an info and then an attention violation: the page has received the info
\* event, one counter update (1, 1) and then the violation event.
C27_Witness ==
    /\ Len(ps.sessionEvents) = 2
    /\ ps.sessionEvents[1].type = "info"
    /\ ps.sessionEvents[2].type = "violation"
    /\ ps.attentionViolations = 1
    /\ Len(page.calls) = 3
    /\ IsOnLogEvent(page.calls[1])
    /\ page.calls[2] = [callback |-> "onViolationUpdate", total |-> 1, attention |-> 1]
    /\ IsOnLogEvent(page.calls[3]) /\ page.calls[3].type = "violation"
    /\ Len(SelectSeq(ps.sessionLogs, IsEventEntry)) = 2

\* ------------------------------------------------- the deferred export
MaxExportRestarts == 1
MaxExportTicks == 1
ExportStep == 500
MaxExportTime == 1500

\* downloadViolationFrames up to its await: nothing is zipped when the
\* instance holds no frames; otherwise the frames it holds now are added to
\* a zip and zip.generateAsync is awaited.
ZipOf(s) ==
    [zipped |-> Len(s.violationFrames),
     zip |-> IF Len(s.violationFrames) = 0 THEN "none" ELSE "generating"]

\* The export of instance s for the timeout timer: the session document
\* built from the instance as it is at time t, and its zip.
Export(timer, s, t) ==
    [stopped |-> timer.session,
     document |-> DownloadSessionLogs(s, t),
     zipped |-> ZipOf(s).zipped,
     zip |-> ZipOf(s).zip]

\* The timeout set by the oldest stopMonitoring call fires: the session
\* document is built from the instance as it is now, and the violation
\* frames it holds now are put in a zip.
ExportFires ==
    /\ Len(timers) > 0
    /\ now >= Head(timers).due
    /\ exported' = Append(exported, Export(Head(timers), ps, now))
    /\ timers' = Tail(timers)
    /\ UNCHANGED << ps, now, loading, chains, recognizing, sceneVars, page, caught, component, dropped,
                    sessions, scriptPos, presenceFrames, meshHistory, awaiting, audit >>

\* zip.generateAsync settles for an export: the zip is downloaded, or the
\* rejection is caught and nothing is downloaded.
ZipGenerated(ok) ==
    /\ \E i \in 1..Len(exported) :
           /\ exported[i].zip = "generating"
           /\ exported' = [exported EXCEPT ![i].zip = IF ok THEN "downloaded" ELSE "failed"]
    /\ UNCHANGED << ps, now, loading, chains, recognizing, sceneVars, page, caught, component, dropped,
                    timers, sessions, scriptPos, presenceFrames, meshHistory, awaiting,
                    audit >>

ExportTickBudget == presenceFrames + awaiting.presence < MaxExportTicks

NextExport ==
    \/ sessions < 1 + MaxExportRestarts /\ loading = 0 /\ StartMonitoringCall
    \/ LoadModelsResolved
    \/ ps.isMonitoring /\ StopMonitoringCall
    \/ ProcessVideoExit
    \/ ExportTickBudget /\ TickEntry
    \/ TickPresence(2)
    \/ TickMesh
    \/ TickNoRecognition
    \/ \E hasBlob \in BOOLEAN : ToBlobCallback(hasBlob)
    \/ ExportFires
    \/ \E ok \in BOOLEAN : ZipGenerated(ok)
    \/ Elapse(ExportStep, MaxExportTime)

SpecExport == Init /\ [][NextExport]_vars

IsSessionEnd(entry) == entry.type = "session_end"

\* C28 as stated: every session document exported because of a
\* stopMonitoring call describes the session that call stopped, whatever
\* happened between the call and the export 1000 ms later: its session id is
\* that session's start time, its events begin with that session's start
\* entries and contain its session_end entry, and its statistics are the
\* counters that entry recorded.
C28_AsStated ==
    \A i \in 1..Len(exported) :
        LET document == exported[i].document
            ends == SelectSeq(document.events, IsSessionEnd)
        IN  /\ document.exported
            /\ document.session_id = exported[i].stopped
            /\ document.events[1].type = "event"
            /\ document.events[2].type = "session_start"
            /\ document.events[2].session_id = exported[i].stopped
            /\ Len(ends) = 1
            /\ document.total_violations = ends[1].total_violations
            /\ document.attention_violations = ends[1].attention_violations

\* -------------------------------------------- flicker and the episode
\* C29 as stated: every post-calibration frame classified Focused zeroes
\* distractionCounter and clears distractionStartTime, and therefore
\* 'Sustained distraction detected' is emitted only on a frame that ends a
\* run of consecutive Distracted frames lasting at least 2000 ms: frame
\* sequences without such a run never produce the confirmation.
C29_AsStated ==
    [][AnalysedFrame =>
          LET focused == FrameClass(ps, MultiFaceLandmarks(pose)[1], now) = "focused"
              fires == Len(SelectSeq(NewEvents, IsSustainedDistraction)) > 0
          IN  /\ focused => /\ ps'.distractionCounter = 0
                            /\ ps'.distractionStartTime = Null
              /\ fires => /\ runLen' >= 1
                          /\ now - runStart' >= MIN_DISTRACTION_DURATION
      ]_vars

\* ------------------------------------------- the trigger specification
\* One session; the subject holds still facing the camera through
\* calibration, then turns the head, looks aside, or both, and may change
\* again; time passes.
MaxTriggerFrames == 4
MaxTriggerPoseChanges == 2
MaxTriggerTicks == 1

TriggerPoses == { "neutral", "turned", "gaze_away", "turned_gaze_away" }

TriggerFrameBudget == landmarkFrames < MAX_FRAMES \/ analysedFrames < MaxTriggerFrames

NextTrigger ==
    \/ sessions = 0 /\ StartMonitoringCall
    \/ LoadModelsResolved
    \/ TriggerFrameBudget /\ TickEntry
    \/ TickPresence(1)
    \/ TickMesh
    \/ TickRecognition
    \/ TickNoRecognition
    \/ RecognitionResolved(EnrolledFace)
    \/ /\ landmarkFrames >= MAX_FRAMES
       /\ \E p \in TriggerPoses : ChangePose(p, MaxTriggerPoseChanges)
    \/ OutsideCalibration /\ AdvanceTime(MaxTriggerTicks)

SpecTrigger == Init /\ [][NextTrigger]_vars

\* C30: whenever a frame confirms Distracted, the attention_change entry it
\* appends names 'head_movement' iff the head-pose classifier said Distracted
\* on that frame (also when the gaze classifier did too) and 'gaze_shift' iff
\* only the gaze classifier did; its duration is the frame's time minus the
\* episode start, and at least 2000 ms.
C30_TriggerAndDuration ==
    [][AnalysedFrame =>
          LET c == Classify(CalibrationTransition(ps, now), MultiFaceLandmarks(pose)[1])
              entries == SelectSeq(NewLogs, IsDistractedEntry)
          IN  Len(entries) > 0 =>
                  /\ Len(entries) = 1
                  /\ Len(SelectSeq(NewEvents, IsSustainedDistraction)) = 1
                  /\ entries[1].trigger = "head_movement" <=> c.attention = "distracted"
                  /\ entries[1].trigger = "gaze_shift" <=>
                         (c.attention = "focused" /\ c.gaze = "distracted")
                  /\ ps'.distractionStartTime # Null
                  /\ entries[1].duration = now - ps'.distractionStartTime
                  /\ entries[1].duration >= MIN_DISTRACTION_DURATION
      ]_vars

\* Distracted was confirmed on a frame with the head turned and the eyes
\* aside, after frames with only the eyes aside: the entry names
\* 'head_movement' and a duration of 2000 ms.
C30_Witness ==
    /\ pose = "turned_gaze_away"
    /\ poseChanges = 2
    /\ ps.lastAttentionState = "distracted"
    /\ Len(ps.sessionLogs) > 0
    /\ LET entry == ps.sessionLogs[Len(ps.sessionLogs)]
       IN  /\ IsDistractedEntry(entry)
           /\ entry.trigger = "head_movement"
           /\ entry.duration = 2000
           /\ entry.timestamp = now
    /\ LET c == Classify(ps, MultiFaceLandmarks(pose)[1])
       IN  c.attention = "distracted" /\ c.gaze = "distracted"

\* ----------------------------------------------- the gaze specification
\* One session with one subject, who holds a pose through calibration and
\* may change it afterwards: eyes on the screen or aside, both eyes shut, one
\* eye shut, both iris points or one of them not delivered.
GazePoses == { "neutral", "gaze_away", "eyes_shut", "wink", "no_iris", "one_iris" }

NextGaze ==
    \/ sessions = 0 /\ StartMonitoringCall
    \/ LoadModelsResolved
    \/ FrameBudget /\ TickEntry
    \/ TickPresence(1)
    \/ TickMesh
    \/ TickRecognition
    \/ TickNoRecognition
    \/ RecognitionResolved(EnrolledFace)
    \/ OutsideCalibration /\ \E p \in GazePoses : ChangePose(p, MaxPoseChanges)
    \/ OutsideCalibration /\ AdvanceTime(MaxMeshTicks)

SpecGaze == InitScene(GazePoses) /\ [][NextGaze]_vars

\* The gaze signal of a landmark set is undefined: an iris point is missing
\* or an eye is narrower than MIN_EYE_WIDTH.
GazeUndefined(landmarks) ==
    \/ 468 \notin DOMAIN landmarks
    \/ 473 \notin DOMAIN landmarks
    \/ Lt(Abs(Sub(landmarks[133].x, landmarks[33].x)), MIN_EYE_WIDTH)
    \/ Lt(Abs(Sub(landmarks[362].x, landmarks[263].x)), MIN_EYE_WIDTH)

\* C31: a processed landmark frame whose gaze signal is undefined leaves the
\* gaze history and the gaze baseline as they were.  During calibration the
\* yaw and pitch baselines are still updated from the frame; after it the
\* frame is classified by the head-pose classifier alone (the gaze classifier
\* says Focused) and the yaw and pitch histories are still pushed.
C31_UndefinedGaze ==
    [][(ps.isMonitoring /\ Len(MultiFaceLandmarks(pose)) > 0 /\ TickMesh
            /\ GazeUndefined(MultiFaceLandmarks(pose)[1])) =>
          LET landmarks == MultiFaceLandmarks(pose)[1]
              raw == RawHeadAngles(landmarks)
              head == AnalyzeAttention(CalibrationTransition(ps, now), landmarks)
          IN  /\ ps'.gazeHistory = ps.gazeHistory
              /\ ps'.baselineGaze = ps.baselineGaze
              /\ landmarkFrames < MAX_FRAMES =>
                     /\ ps'.baselineYaw = Ema(CALIBRATION_EMA_ALPHA, ps.baselineYaw, raw.yaw)
                     /\ ps'.baselinePitch =
                            Ema(CALIBRATION_EMA_ALPHA, ps.baselinePitch, raw.pitch)
                     /\ ps'.calibrationFrames = ps.calibrationFrames + 1
              /\ landmarkFrames >= MAX_FRAMES =>
                     /\ ps'.yawHistory = head.state.yawHistory
                     /\ ps'.pitchHistory = head.state.pitchHistory
                     /\ AnalyzeGaze(head.state, landmarks).result = "focused"
                     /\ (ps'.distractionCounter = ps.distractionCounter + 1)
                            <=> head.result = "distracted"
                     /\ (ps'.focusCounter = ps.focusCounter + 1)
                            <=> head.result = "focused"
      ]_vars

\* The session was calibrated with one eye shut and the iris well aside, and
\* frames were analysed in the same pose: the gaze baseline is still 0 and
\* the gaze history empty, the pitch baseline has moved and the yaw history
\* has an entry per analysed frame, and the frames counted as Focused.
C31_Witness ==
    /\ pose = "wink"
    /\ poseChanges = 0
    /\ landmarkFrames = MAX_FRAMES + 2
    /\ ps.baselineGaze = Zero
    /\ ps.gazeHistory = << >>
    /\ ps.baselinePitch # Zero
    /\ Len(ps.yawHistory) = 2
    /\ ps.focusCounter = 2

\* --------------------------------------------- the history specification
\* One session long enough to fill the three histories and push beyond
\* their capacity; the subject changes pose after calibration.
MaxHistoryFrames == 10
MaxHistoryPoseChanges == 2

HistoryPoses == { "neutral", "turned", "gaze_away", "eyes_shut" }

HistoryFrameBudget == landmarkFrames < MAX_FRAMES \/ analysedFrames < MaxHistoryFrames

NextHistory ==
    \/ sessions = 0 /\ StartMonitoringCall
    \/ LoadModelsResolved
    \/ HistoryFrameBudget /\ TickEntry
    \/ TickPresence(1)
    \/ TickMesh
    \/ TickNoRecognition
    \/ /\ landmarkFrames >= MAX_FRAMES
       /\ \E p \in HistoryPoses : ChangePose(p, MaxHistoryPoseChanges)

SpecHistory == Init /\ [][NextHistory]_vars

\* A history after value was inserted: the values in insertion order, the
\* oldest gone if there were 8 already.
Inserted(history, value) ==
    IF Len(history) < 8 THEN Append(history, value)
    ELSE Append(SubSeq(history, 2, Len(history)), value)

\* The exponential moving average of the deviation with the most recent
\* history value only, or with the deviation itself when the history is empty.
Smoothed(history, deviation) ==
    LET last == IF Len(history) = 0 THEN deviation ELSE history[Len(history)]
    IN  Add(Mul(Decimal(25, 2), deviation), Mul(Decimal(75, 2), last))

\* a * deviation + (1 - a) * deviation is the deviation, also as the doubles
\* compute it with a = 0.25.
IsDeviation(value, deviation) == value = deviation

FirstValueIsDeviation(before, after, deviation) ==
    (Len(before) = 0 /\ Len(after) = 1) => IsDeviation(after[1], deviation)

\* C32: the yaw, pitch and gaze histories never hold more than 8 values; an
\* analysed frame appends to each one value (to the gaze history only when
\* the gaze signal is defined), in insertion order, evicting exactly the
\* oldest from a full history; the value is the average of the frame's
\* deviation with the most recent history value only, and the deviation
\* itself when the history is empty; no
\* other step changes a history.
C32_Histories ==
    [][/\ Len(ps'.yawHistory) <= 8 /\ Len(ps'.pitchHistory) <= 8
       /\ Len(ps'.gazeHistory) <= 8
       /\ IF AnalysedFrame
          THEN LET landmarks == MultiFaceLandmarks(pose)[1]
                   raw == RawHeadAngles(landmarks)
               IN  /\ ps'.yawHistory =
                          Inserted(ps.yawHistory,
                                   Smoothed(ps.yawHistory, Abs(Sub(raw.yaw, ps.baselineYaw))))
                   /\ ps'.pitchHistory =
                          Inserted(ps.pitchHistory,
                                   Smoothed(ps.pitchHistory,
                                            Abs(Sub(raw.pitch, ps.baselinePitch))))
                   /\ ps'.gazeHistory =
                          IF GazeUndefined(landmarks) THEN ps.gazeHistory
                          ELSE Inserted(ps.gazeHistory,
                                        Smoothed(ps.gazeHistory,
                                                 Abs(Sub(AvgGaze(landmarks), ps.baselineGaze))))
                   /\ FirstValueIsDeviation(ps.yawHistory, ps'.yawHistory,
                                             Abs(Sub(raw.yaw, ps.baselineYaw)))
                   /\ FirstValueIsDeviation(ps.pitchHistory, ps'.pitchHistory,
                                             Abs(Sub(raw.pitch, ps.baselinePitch)))
                   /\ GazeUndefined(landmarks) \/
                          FirstValueIsDeviation(ps.gazeHistory, ps'.gazeHistory,
                                                Abs(Sub(AvgGaze(landmarks), ps.baselineGaze)))
          ELSE /\ ps'.yawHistory = ps.yawHistory
               /\ ps'.pitchHistory = ps.pitchHistory
               /\ ps'.gazeHistory = ps.gazeHistory
      ]_vars

\* Ten frames were analysed, the first two with the eyes shut: the yaw
\* history is full and has lost its two oldest values (those of the frames
\* facing the camera, 0; the head was turned from the third frame on), and
\* the gaze history has just become full.
C32_Witness ==
    /\ analysedFrames = 10
    /\ Len(ps.yawHistory) = 8
    /\ Len(ps.gazeHistory) = 8
    /\ Gt(ps.yawHistory[1], Zero)
    /\ Gt(ps.yawHistory[8], ps.yawHistory[1])
    /\ poseChanges = 2

\* ------------------------------------------- the confirmation counters
\* One session in which the presence collaborator reports one face through
\* calibration and anything after it, around an identity verification, while
\* mesh frames are analysed and the subject may turn the head.
NextCounters ==
    \/ sessions = 0 /\ StartMonitoringCall
    \/ LoadModelsResolved
    \/ FrameBudget /\ TickEntry
    \/ landmarkFrames < MAX_FRAMES /\ TickPresence(1)
    \/ /\ landmarkFrames >= MAX_FRAMES
       /\ \E faceCount \in SessionFaceCounts : TickPresence(faceCount)
    \/ TickMesh
    \/ OutsideCalibration /\ \E p \in RestartPoses : ChangePose(p, MaxPoseChanges)
    \/ TickRecognition
    \/ TickNoRecognition
    \/ \E detection \in Detections : RecognitionResolved(detection)
    \/ landmarkFrames = 0 /\ AdvanceTime(MaxMeshTicks)

SpecCounters == InitScene(RestartPoses) /\ [][NextCounters]_vars

\* C33: the four confirmation counters are natural numbers; distractionCounter
\* and focusCounter are never both nonzero, nor are unauthorizedCounter and
\* authorizedCounter; and a presence frame processed with no face or with
\* several faces leaves both identity counters at 0.
C33_Counters ==
    [][/\ ps'.distractionCounter \in Nat /\ ps'.focusCounter \in Nat
       /\ ps'.unauthorizedCounter \in Nat /\ ps'.authorizedCounter \in Nat
       /\ ps'.distractionCounter = 0 \/ ps'.focusCounter = 0
       /\ ps'.unauthorizedCounter = 0 \/ ps'.authorizedCounter = 0
       /\ \A faceCount \in SessionFaceCounts \ { 1 } :
              (ps.isMonitoring /\ TickPresence(faceCount)) =>
                  /\ ps'.unauthorizedCounter = 0
                  /\ ps'.authorizedCounter = 0
      ]_vars

\* After calibration two Distracted frames were analysed with one face
\* reported, the identity of the subject was verified once, and then two
\* faces were reported: distractionCounter is 2 with focusCounter 0, and both
\* identity counters are 0.
C33_Witness ==
    /\ ps.isMonitoring
    /\ ps.distractionCounter = 2
    /\ ps.focusCounter = 0
    /\ Len(verifications) = 1
    /\ recognizing = 0
    /\ presenceFrames = MAX_FRAMES + 3
    /\ ps.lastFaceCount = 2
    /\ ps.unauthorizedCounter = 0
    /\ ps.authorizedCounter = 0

\* ------------------------------------------- the CornerWebcam component
\* One mount of the component: the webcam becomes ready, the readiness poll
\* and the session timer tick, the user clicks Stop Monitoring, the
\* component is unmounted.  ps, loading, chains, recognizing, awaiting and
\* timers are those of the instance the ref holds or held last; an instance
\* the poll replaces while callbacks of its own are pending lives on in
\* dropped until the last of them has run.
MaxConstructions == 2
MaxMountTicks == 2
MountStep == 1000
MaxMountTime == 2000

\* The component right after mounting: refs and state as useRef / useState
\* initialise them, the readiness poll installed.
Mounted ==
    [mounted |-> TRUE, ready |-> FALSE, ref |-> "null", isMonitoring |-> FALSE,
     constructed |-> 0, started |-> 0, stopClicks |-> 0, timeIntervals |-> 0,
     sessionTime |-> [minutes |-> 0, seconds |-> 0]]

\* The webcam stream arrives: webcamRef.current.video.srcObject is set.
WebcamReady ==
    /\ component.mounted
    /\ ~component.ready
    /\ component' = [component EXCEPT !.ready = TRUE]
    /\ UNCHANGED << ps, now, loading, chains, recognizing, sceneVars, page, caught, exported,
                    dropped, timers, sessions, scriptPos, presenceFrames, meshHistory,
                    awaiting, audit >>

\* The instance of the ref with the callbacks it has pending.
Held ==
    [ps |-> ps, loading |-> loading, chains |-> chains, recognizing |-> recognizing,
     awaiting |-> awaiting, timers |-> timers]

\* An instance still has a load, a loop or an export timeout pending.
HasPending(held) == held.loading > 0 \/ held.chains > 0 \/ held.timers # << >>

\* The dropped instances after instance i has run a callback: it is
\* forgotten with its last pending callback.
Settled(i, held) ==
    IF HasPending(held) THEN [dropped EXCEPT ![i] = held]
    ELSE SubSeq(dropped, 1, i - 1) \o SubSeq(dropped, i + 1, Len(dropped))

\* A tick of the readiness poll finds the webcam ready and the ref empty:
\* initializeProctoring constructs a ProctoringSystem, calls startMonitoring
\* on it, sets the indicator and installs a session timer.  The instance the
\* ref held before keeps the callbacks it has pending.
InitializeProctoring ==
    /\ component.mounted
    /\ component.ready
    /\ component.ref = "null"
    /\ ps' = StartMonitoring(Construct(ValidArgs, page.stored, now).instance, now)
    /\ page' = PageAfter(PageBefore(ValidArgs, page.stored), now)
    /\ component' = [component EXCEPT !.ref = "instance",
                                      !.isMonitoring = TRUE,
                                      !.constructed = @ + 1,
                                      !.started = @ + 1,
                                      !.timeIntervals = @ + 1]
    /\ dropped' = IF HasPending(Held) THEN Append(dropped, Held) ELSE dropped
    /\ loading' = 1
    /\ chains' = 0
    /\ recognizing' = 0
    /\ awaiting' = NoneAwaiting
    /\ timers' = << >>
    /\ sessions' = sessions + 1
    /\ scriptPos' = 0
    /\ landmarkFrames' = 0
    /\ fold' = [yaw |-> Zero, pitch |-> Zero, gaze |-> Zero]
    /\ runLen' = 0
    /\ runStart' = Null
    /\ verifications' = << >>
    /\ run' = << >>
    /\ UNCHANGED << now, sceneVars, caught, exported, presenceFrames, analysedFrames,
                    emptyResults, captures >>

\* The user clicks Stop Monitoring (the button is enabled while the
\* indicator is on).
StopClick ==
    /\ component.mounted
    /\ component.isMonitoring
    /\ component.ref = "instance"
    /\ ps' = StopMonitoring(ps, now)
    /\ timers' = Append(timers, [due |-> now + EXPORT_DELAY,
                                 session |-> ps.sessionStartTime])
    /\ component' = [component EXCEPT !.ref = "null",
                                      !.isMonitoring = FALSE,
                                      !.stopClicks = @ + 1]
    /\ UNCHANGED << recognizing, now, loading, chains, sceneVars, page, caught, exported,
                    dropped, sessions, scriptPos, presenceFrames, meshHistory, awaiting,
                    audit >>

\* The component is unmounted and React runs the cleanup of the effect: the
\* readiness poll and the session timer installed last are cleared, and an
\* instance in the ref is stopped and dropped from the ref.  The indicator
\* is left as it is.
Unmount ==
    /\ component.mounted
    /\ component' = [component EXCEPT !.mounted = FALSE,
                                      !.ref = "null",
                                      !.timeIntervals = IF @ > 0 THEN @ - 1 ELSE @]
    /\ ps' = IF component.ref = "instance" THEN StopMonitoring(ps, now) ELSE ps
    /\ timers' = IF component.ref = "instance"
                 THEN Append(timers, [due |-> now + EXPORT_DELAY,
                                      session |-> ps.sessionStartTime])
                 ELSE timers
    /\ UNCHANGED << recognizing, now, loading, chains, sceneVars, page, caught, exported,
                    dropped, sessions, scriptPos, presenceFrames, meshHistory, awaiting,
                    audit >>

\* A tick of a session timer while the ref holds an instance with a session
\* start time: the elapsed time is shown as minutes and seconds.
SessionTimerTick ==
    /\ component.timeIntervals > 0
    /\ component.ref = "instance"
    /\ ps.sessionStartTime # Null /\ ps.sessionStartTime # 0
    /\ LET elapsed == now - ps.sessionStartTime
       IN  component' = [component EXCEPT !.sessionTime =
                            [minutes |-> elapsed \div 60000,
                             seconds |-> (elapsed % 60000) \div 1000]]
    /\ component' # component
    /\ UNCHANGED << ps, now, loading, chains, recognizing, sceneVars, page, caught, exported,
                    dropped, timers, sessions, scriptPos, presenceFrames, meshHistory,
                    awaiting, audit >>

\* Everything but the dropped instances and the exports.
heldVars ==
    << ps, now, loading, chains, recognizing, sceneVars, page, caught, component, timers,
       sessions, scriptPos, presenceFrames, meshHistory, awaiting, audit >>

\* The loops of a dropped instance that are between two ticks.
DroppedAtEntry(held) ==
    held.chains - held.recognizing - held.awaiting.presence - held.awaiting.mesh
        - held.awaiting.gate

\* loadFaceApiModels resolves for dropped instance i, which is stopped:
\* the processVideo() call startMonitoring goes on to make returns at once.
DroppedLoadModelsResolved(i) ==
    /\ dropped[i].loading > 0
    /\ ~dropped[i].ps.isMonitoring
    /\ dropped' = Settled(i, [dropped[i] EXCEPT !.loading = @ - 1])
    /\ UNCHANGED << heldVars, exported >>

\* A loop of dropped instance i finds it not monitoring at tick entry and
\* ends.
DroppedProcessVideoExit(i) ==
    /\ DroppedAtEntry(dropped[i]) > 0
    /\ ~dropped[i].ps.isMonitoring
    /\ dropped' = Settled(i, [dropped[i] EXCEPT !.chains = @ - 1])
    /\ UNCHANGED << heldVars, exported >>

\* The presence result of a tick of dropped instance i arrives; the tick
\* goes on to dispatch the frame to the mesh collaborator.
DroppedTickPresence(i, faceCount) ==
    /\ dropped[i].awaiting.presence > 0
    /\ dropped' = [dropped EXCEPT
                       ![i].ps = OnFaceDetectionResults(@, faceCount, now),
                       ![i].awaiting = [@ EXCEPT !.presence = @ - 1, !.mesh = @ + 1]]
    /\ UNCHANGED << heldVars, exported >>

\* The mesh result of a tick of dropped instance i arrives; the tick goes on
\* to the recognition gate.
DroppedTickMesh(i) ==
    /\ dropped[i].awaiting.mesh > 0
    /\ dropped' = [dropped EXCEPT
                       ![i].ps = OnFaceMeshResults(@, MultiFaceLandmarks(pose), now),
                       ![i].awaiting = [@ EXCEPT !.mesh = @ - 1, !.gate = @ + 1]]
    /\ UNCHANGED << heldVars, exported >>

\* A tick of dropped instance i passes the recognition gate and calls
\* performFaceRecognition.
DroppedTickRecognition(i) ==
    /\ dropped[i].awaiting.gate > 0
    /\ RecognitionDue(dropped[i].ps, now)
    /\ dropped' = [dropped EXCEPT
                       ![i].ps = BeginFaceRecognition(@, now),
                       ![i].recognizing = IF SkipsRecognition(dropped[i].ps)
                                          THEN @ ELSE @ + 1,
                       ![i].awaiting = [@ EXCEPT !.gate = @ - 1]]
    /\ UNCHANGED << heldVars, exported >>

\* A tick of dropped instance i finds the gate closed and schedules the next
\* tick.
DroppedTickNoRecognition(i) ==
    /\ dropped[i].awaiting.gate > 0
    /\ ~RecognitionDue(dropped[i].ps, now)
    /\ dropped' = [dropped EXCEPT ![i].awaiting = [@ EXCEPT !.gate = @ - 1]]
    /\ UNCHANGED << heldVars, exported >>

\* The detection awaited by performFaceRecognition on dropped instance i
\* arrives.
DroppedRecognitionResolved(i, detection) ==
    /\ dropped[i].recognizing > 0
    /\ dropped' = [dropped EXCEPT
                       ![i].ps = FaceRecognitionResult(@, detection, now),
                       ![i].recognizing = @ - 1]
    /\ UNCHANGED << heldVars, exported >>

\* The export timeout of dropped instance i fires.
DroppedExportFires(i) ==
    /\ Len(dropped[i].timers) > 0
    /\ now >= Head(dropped[i].timers).due
    /\ exported' = Append(exported, Export(Head(dropped[i].timers), dropped[i].ps, now))
    /\ dropped' = Settled(i, [dropped[i] EXCEPT !.timers = Tail(@)])
    /\ UNCHANGED heldVars

MountTickBudget == presenceFrames + awaiting.presence < MaxMountTicks

\* No violation is logged in these sessions (one face, the enrolled one), so
\* no frame capture is pending and no export has frames to zip.
NextMount ==
    \/ WebcamReady
    \/ component.constructed < MaxConstructions /\ InitializeProctoring
    \/ LoadModelsResolved
    \/ StopClick
    \/ Unmount
    \/ ProcessVideoExit
    \/ MountTickBudget /\ TickEntry
    \/ TickPresence(1)
    \/ TickMesh
    \/ TickRecognition
    \/ TickNoRecognition
    \/ RecognitionResolved(EnrolledFace)
    \/ ExportFires
    \/ SessionTimerTick
    \/ \E i \in 1..Len(dropped) : DroppedLoadModelsResolved(i)
    \/ \E i \in 1..Len(dropped) : DroppedProcessVideoExit(i)
    \/ \E i \in 1..Len(dropped) : DroppedTickPresence(i, 1)
    \/ \E i \in 1..Len(dropped) : DroppedTickMesh(i)
    \/ \E i \in 1..Len(dropped) : DroppedTickRecognition(i)
    \/ \E i \in 1..Len(dropped) : DroppedTickNoRecognition(i)
    \/ \E i \in 1..Len(dropped) : DroppedRecognitionResolved(i, EnrolledFace)
    \/ \E i \in 1..Len(dropped) : DroppedExportFires(i)
    \/ Elapse(MountStep, MaxMountTime)

SpecMount ==
    /\ ps = NoInstance
    /\ page = PageBefore(ValidArgs, Enrolled)
    /\ component = Mounted
    /\ NothingStarted("neutral")
    /\ [][NextMount]_vars

\* C34 as stated: during one mount at most one ProctoringSystem is
\* constructed and startMonitoring is called at most once, so once the user
\* has clicked Stop Monitoring no session is running and the indicator is
\* idle.
C34_AsStated ==
    /\ component.constructed <= 1
    /\ component.started <= 1
    /\ component.stopClicks >= 1 => ~component.isMonitoring /\ ~ps.isMonitoring

\* ------------------------------------------------- one lane of execution
\* C35 as stated: whatever the sequence of startMonitoring and
\* stopMonitoring calls, at most one processVideo loop is live, and so at
\* most one tick is in flight (awaiting the presence result, the mesh result,
\* the recognition gate or the detection).
C35_AsStated ==
    /\ chains <= 1
    /\ awaiting.presence + awaiting.mesh + awaiting.gate + recognizing <= 1

\* ----------------------------------------- the alternation specification
\* One session of one of two kinds.  Either the mesh collaborator delivers
\* landmarks, the subject turns away and back and time passes; or it
\* delivers none, and the presence collaborator and the identity verification
\* are followed, with the enrolled face or a stranger in front of the camera
\* and with presence gaps.
MaxAltFrames == 12
MaxAltPoseChanges == 3
MaxAltTicks == 2
MaxAltPresenceFrames == 7
MaxCycles == 6
MaxAltTime == 70000

\* Nobody, one face.
AltFaceCounts == { 0, 1 }

\* The enrolled face (distance 0) or a stranger (distance 1.0).
AltDetections == { Detection("face", Embedding(<< 3000, 4000 >>)), Detection("face", Embedding(<< 9000, 12000 >>)) }

WithLandmarks == pose # "no_face"

AltFrameBudget ==
    IF WithLandmarks
    THEN landmarkFrames < MAX_FRAMES \/ analysedFrames < MaxAltFrames
    ELSE /\ presenceFrames + awaiting.presence < MaxAltPresenceFrames
         /\ Len(verifications) < MaxCycles

\* The subject moves, and time passes, between the ticks that follow
\* calibration.
BetweenFrames == WithLandmarks /\ landmarkFrames >= MAX_FRAMES /\ AtEntry > 0

NextAlternation ==
    \/ sessions = 0 /\ StartMonitoringCall
    \/ LoadModelsResolved
    \/ AltFrameBudget /\ TickEntry
    \/ WithLandmarks /\ TickPresence(1)
    \/ ~WithLandmarks /\ \E faceCount \in AltFaceCounts : TickPresence(faceCount)
    \/ TickMesh
    \/ /\ BetweenFrames
       /\ \E p \in RestartPoses : ChangePose(p, MaxAltPoseChanges)
    \/ BetweenFrames /\ AdvanceTime(MaxAltTicks)
    \/ TickRecognition
    \/ TickNoRecognition
    \/ \E detection \in (IF WithLandmarks THEN { EnrolledFace } ELSE AltDetections) :
           RecognitionResolved(detection)
    \/ /\ ~WithLandmarks /\ ps.isMonitoring /\ recognizing = 0
       /\ now < GateDueAt
       /\ Elapse(GateDueAt - now, MaxAltTime)

SpecAlternation == InitScene({ "neutral", "no_face" }) /\ [][NextAlternation]_vars

IsFocusRestoredEvent(e) == IsEvent(e, "Focus restored", "info")

IsWrongPerson(e) ==
    e.message.text = "Wrong person detected (distance: " /\ e.type = "violation"

IsAuthorizedPerson(e) ==
    e.message.text = "Authorized person verified (distance: " /\ e.type = "info"

\* C36: in the events of a session the confirmations of each machine
\* alternate: no two 'Sustained distraction detected' without a 'Focus
\* restored' between them and no two 'Focus restored' without a 'Sustained
\* distraction detected' between them; likewise for 'Wrong person detected'
\* and 'Authorized person verified'.
C36_ConfirmationsAlternate ==
    LET attention == SelectSeq(ps.sessionEvents, IsAttentionEvent)
        identity == SelectSeq(ps.sessionEvents, IsIdentityEvent)
    IN  /\ \A i \in 1..(Len(attention) - 1) :
               IsSustainedDistraction(attention[i])
                   # IsSustainedDistraction(attention[i + 1])
        /\ \A i \in 1..(Len(identity) - 1) :
               IsWrongPerson(identity[i]) # IsWrongPerson(identity[i + 1])

\* One face was seen and a stranger was verified in three ticks (wrong
\* person confirmed); then a tick saw nobody, and in three more ticks one
\* face was seen and the stranger verified: unauthorizedCounter has reached
\* 3 a second time and there is still one 'Wrong person detected' event.
C36_Witness ==
    /\ Len(verifications) = 6
    /\ recognizing = 0
    /\ ps.unauthorizedCounter = 3
    /\ presenceFrames = MaxAltPresenceFrames
    /\ ps.lastFaceCount = 1
    /\ ps.lastPersonState = "unauthorized"
    /\ Len(SelectSeq(ps.sessionEvents, IsWrongPerson)) = 1
    /\ Len(SelectSeq(ps.sessionEvents, IsAuthorizedPerson)) = 0

\* ------------------------------------------ frames and their violations
\* C37 as stated: every frame_saved entry of the session log comes after an
\* 'event' entry of the same log with severity violation and the message the
\* frame_saved entry gives as its reason, whenever the capture callback
\* arrives.
C37_AsStated ==
    \A i \in 1..Len(ps.sessionLogs) :
        ps.sessionLogs[i].type = "frame_saved" =>
            \E j \in 1..(i - 1) :
                /\ ps.sessionLogs[j].type = "event"
                /\ ps.sessionLogs[j].event_type = "violation"
                /\ ps.sessionLogs[j].message = ps.sessionLogs[i].reason


\* ------------------------------------------ mesh results without landmarks
MaxGapResults == 2
MaxGapFrames == 4
MaxGapPoseChanges == 5
MaxGapTicks == 1

GapPoses == {"neutral", "turned", "no_face"}

CalibrationPoses == {"neutral", "no_face"}

GapFrameBudget == landmarkFrames < MAX_FRAMES \/ analysedFrames < MaxGapFrames

\* The result a mesh frame delivers has no landmarks and the instance is
\* monitoring.
EmptyResult == ps.isMonitoring /\ Len(MultiFaceLandmarks(pose)) = 0

\* Where in its calibration a session that has processed n landmark-bearing
\* frames is.
Phase(n) == IF n = 0 THEN "before" ELSE IF n < MAX_FRAMES THEN "calibrating" ELSE "after"

\* A mesh frame, with the results without landmarks recorded: where in its
\* calibration the session was, how long the run of Distracted frames was,
\* and when.
TickMeshRecorded ==
    /\ awaiting.mesh > 0
    /\ MeshHandled
    /\ emptyResults' = IF EmptyResult
                       THEN Append(emptyResults, [phase |-> Phase(landmarkFrames),
                                                  runLen |-> runLen, at |-> now])
                       ELSE emptyResults
    /\ awaiting' = [awaiting EXCEPT !.mesh = @ - 1, !.gate = @ + 1]
    /\ UNCHANGED << recognizing, chains >>

\* Another tick may be entered: the session is calibrating or has analysed
\* fewer than MaxGapFrames frames, and with nobody in front of the camera
\* fewer than MaxGapResults results without landmarks have come.
GapTickBudget ==
    /\ GapFrameBudget
    /\ pose = "no_face" => Len(emptyResults) < MaxGapResults

NextGap ==
    \/ sessions = 0 /\ StartMonitoringCall
    \/ LoadModelsResolved
    \/ GapTickBudget /\ TickEntry
    \/ TickPresence(IF pose = "no_face" THEN 0 ELSE 1)
    \/ TickMeshRecorded
    \/ TickRecognition
    \/ TickNoRecognition
    \/ RecognitionResolved(EnrolledFace)
    \/ /\ AtEntry > 0
       /\ \E p \in (IF landmarkFrames < MAX_FRAMES THEN CalibrationPoses ELSE GapPoses) :
              ChangePose(p, MaxGapPoseChanges)
    \/ AtEntry > 0 /\ landmarkFrames >= MAX_FRAMES /\ AdvanceTime(MaxGapTicks)

SpecGap == InitScene({ "neutral" }) /\ [][NextGap]_vars

\* C38: a mesh result without landmarks handled while monitoring changes
\* nothing of the instance (calibration frame count, baseline, histories,
\* counters, episode start, confirmed states) and emits no event; so the
\* calibration frame count is the number of landmark-bearing frames of the
\* session whatever came between them, the distraction counter and the
\* episode start are those of the run of Distracted landmark-bearing frames
\* whatever came between them, and a confirmation reports the time since the
\* first frame of that run.
C38_EmptyResult ==
    [][/\ Len(emptyResults') > Len(emptyResults) =>
              /\ ps' = ps
              /\ page' = page
              /\ << landmarkFrames, fold, runLen, runStart, analysedFrames >>' =
                     << landmarkFrames, fold, runLen, runStart, analysedFrames >>
       /\ ps'.isMonitoring =>
              /\ ps'.calibrationFrames =
                     IF landmarkFrames' <= MAX_FRAMES THEN landmarkFrames'
                     ELSE MAX_FRAMES + 1
              /\ ps'.distractionCounter = runLen'
              /\ ps'.distractionStartTime = runStart'
       /\ \A i \in 1..Len(NewLogs) :
              IsDistractedEntry(NewLogs[i]) =>
                  /\ runLen' >= STABILIZATION_THRESHOLD
                  /\ NewLogs[i].duration = now - runStart'
      ]_vars

\* Calibration has completed although a result without landmarks came in the
\* middle of it, and a distraction has been confirmed on the third Distracted
\* frame although a result without landmarks came after the first, with a
\* duration that spans the gap.
C38_Witness ==
    /\ Len(emptyResults) = 2
    /\ emptyResults[1].phase = "calibrating"
    /\ emptyResults[2].runLen = 1
    /\ emptyResults[2].at = now
    /\ ps.calibrationFrames = MAX_FRAMES + 1
    /\ runLen = 3
    /\ runStart = now - TimeStep
    /\ ps.lastAttentionState = "distracted"
    /\ LET entry == ps.sessionLogs[Len(ps.sessionLogs)]
       IN  IsDistractedEntry(entry) /\ entry.duration = TimeStep


\* ------------------------------------------ the counters and the session log
IsViolationEntry(entry) == IsEventEntry(entry) /\ entry.event_type = "violation"

IsAttentionViolationEntry(entry) ==
    IsViolationEntry(entry) /\ IsAttentionMessage(entry.message)

\* C39 as stated: in every state after startMonitoring, totalViolations is
\* the number of 'event' entries of severity violation in the session log
\* and attentionViolations the number of those whose message contains
\* 'distraction' or 'looking away'.
C39_AsStated ==
    sessions >= 1 =>
        /\ ps.totalViolations = Len(SelectSeq(ps.sessionLogs, IsViolationEntry))
        /\ ps.attentionViolations =
               Len(SelectSeq(ps.sessionLogs, IsAttentionViolationEntry))
        /\ ps.attentionViolations <= ps.totalViolations


\* ------------------------------------------ start, stop and dispose calls
\* dispose: stopMonitoring, then the collaborators and the canvas are
\* released and the stored frames dropped.
Dispose(s, t) ==
    [StopMonitoring(s, t) EXCEPT !.faceDetection = "null",
                                 !.faceMesh = "null",
                                 !.canvas = "null",
                                 !.violationFrames = << >>]

\* dispose() is called; its stopMonitoring schedules an export.
DisposeCall ==
    /\ ps' = Dispose(ps, now)
    /\ timers' = Append(timers, [due |-> now + EXPORT_DELAY, session |-> ps.sessionStartTime])
    /\ UNCHANGED << recognizing, now, loading, chains, sceneVars, host, sessions, scriptPos,
                    presenceFrames, meshHistory, awaiting, audit >>

MaxCallSessions == 2
MaxCallStops == 2
MaxCallFrames == 1
MaxCallTime == 1000

\* Stops (stopMonitoring and dispose calls) so far.
Stops == Len(timers) + Len(exported)

CallTickBudget == presenceFrames + awaiting.presence < MaxCallFrames

\* One face or two are in front of the camera.
CallFaceCounts == { 1, 2 }

\* The calls of a page on one instance, in any order, while the first ticks
\* of its loops run.
NextCalls ==
    \/ sessions < MaxCallSessions /\ StartMonitoringCall
    \/ LoadModelsResolved
    \/ Stops < MaxCallStops /\ StopMonitoringCall
    \/ Stops < MaxCallStops /\ DisposeCall
    \/ ProcessVideoExit
    \/ CallTickBudget /\ TickEntry
    \/ \E faceCount \in CallFaceCounts : TickPresence(faceCount)
    \/ TickMesh
    \/ TickRecognition
    \/ TickNoRecognition
    \/ RecognitionResolved(EnrolledFace)
    \/ ExportFires
    \/ Elapse(ExportStep, MaxCallTime)

SpecCalls == Init /\ [][NextCalls]_vars

IsSessionStart(entry) == entry.type = "session_start"

\* C40 as stated: whatever the order of the startMonitoring, stopMonitoring
\* and dispose calls, the log of a session holds exactly one session_start
\* entry and at most one session_end entry, an export is scheduled only by
\* a stop of a monitoring instance, and a stop of an instance that is not
\* monitoring appends nothing.
C40_AsStated ==
    [][/\ sessions' >= 1 =>
              /\ Len(SelectSeq(ps'.sessionLogs, IsSessionStart)) = 1
              /\ Len(SelectSeq(ps'.sessionLogs, IsSessionEnd)) <= 1
       /\ Len(timers') > Len(timers) => ps.isMonitoring
       /\ ~ps.isMonitoring /\ ~ps'.isMonitoring => ps'.sessionLogs = ps.sessionLogs
      ]_vars

====
